---- MODULE Spec2Model ----
(***************************************************************************)
(* Model of opencode-claude-skill-sync (src/src/index.ts).                 *)
(*                                                                         *)
(* Strings are TLA+ strings handled character by character (Len, SubSeq,   *)
(* \o), so paths, regular expressions and JSON text are modelled by what   *)
(* the code does to their characters.  A value of type `string | null` is  *)
(* a tuple: <<>> is null and <<s>> is the string s.                        *)
(***************************************************************************)
EXTENDS Integers, Sequences, FiniteSets, TLC

VARIABLES
    pc,          \* position of the operation in progress
    fs,          \* the filesystem
    fs0,         \* the filesystem when the operation started
    cacheSkills,        \* syncSkills: result of findSkillsInCache
    remainingLimit,     \* syncSkills: MAX_SKILLS - cacheSkills.length
    marketplaceSkills,  \* syncSkills: result of findSkillsInMarketplaces
    skillMap,    \* syncSkills: the skill map, drained by the reconciliation
    discovered,  \* syncSkills: the skill map as merged
    totalFound,  \* syncSkills: skillMap.size after the merge
    entries,     \* syncSkills, cleanupOrphanedSymlinks: listing of the target directory
    idx,         \* index of the next element of the loop in progress
    cleaned,     \* syncSkills counter
    updated,     \* syncSkills counter
    created,     \* syncSkills counter
    log,         \* messages given to client.app.log
    ops,         \* the mutating filesystem calls made, in order
    segs,        \* extractPluginNameFromPath harness: the segments the input is built from
    sep,         \* extractPluginNameFromPath harness: separator style of the input
    path,        \* extractPluginNameFromPath: argument
    pluginName,  \* extractPluginNameFromPath: return value
    manifest,    \* readInstalledPlugins harness: what the manifest text is made of
    content,     \* readInstalledPlugins: argument
    installedPlugins,  \* readInstalledPlugins: return value; cleanupOrphanedSymlinks: argument
    removed,     \* cleanupOrphanedSymlinks: the counter and return value
    env,         \* what the host provides: whether homedir() and client.app.log throw
    hooks,       \* claudeSkillSync: the value its promise resolved with, or null
    console,     \* the lines given to console.error by the two outermost catches
    hostError,   \* an exception or rejection has reached the host
    versionList, \* version comparator harness: the version strings given
    parsedList,  \* parseVersion: return value for each string
    compared,    \* compareVersions: return value for each pair of strings
    sortedList,  \* versions.sort(compareVersions): the sorted array
    firstPass    \* what an earlier sync pass started from and did, or null

syncVars == <<fs, fs0, cacheSkills, remainingLimit, marketplaceSkills, skillMap, discovered,
              totalFound, entries, idx, cleaned, updated, created, log, ops>>
extractVars == <<segs, sep, path, pluginName>>
manifestVars == <<manifest, content, installedPlugins>>
cleanupVars == <<removed>>
hostVars == <<env, hooks, console, hostError>>
versionVars == <<versionList, parsedList, compared, sortedList>>
passVars == <<firstPass>>
vars == <<pc, syncVars, extractVars, manifestVars, cleanupVars, hostVars, versionVars, passVars>>

null == <<>>

(***************************************************************************)
(* String helpers                                                          *)
(***************************************************************************)
Char(s, i) == SubSeq(s, i, i)

StartsAt(s, i, lit) ==
    /\ i >= 1
    /\ i + Len(lit) - 1 <= Len(s)
    /\ SubSeq(s, i, i + Len(lit) - 1) = lit

\* path.replace(/[\\/]+$/, ""): drop the maximal trailing run of / and \ .
RECURSIVE StripTrailingSlashes(_)
StripTrailingSlashes(s) ==
    IF Len(s) > 0 /\ Char(s, Len(s)) \in {"/", "\\"}
    THEN StripTrailingSlashes(SubSeq(s, 1, Len(s) - 1))
    ELSE s

\* s.replace(/\\/g, "/"): every backslash becomes a forward slash.
RECURSIVE ReplaceBackslashes(_)
ReplaceBackslashes(s) ==
    IF Len(s) = 0 THEN ""
    ELSE (IF Char(s, 1) = "\\" THEN "/" ELSE Char(s, 1))
         \o ReplaceBackslashes(SubSeq(s, 2, Len(s)))

\* [^/]* matched greedily from position i: the index just after the run.
RECURSIVE SegEnd(_, _)
SegEnd(s, i) ==
    IF i > Len(s) \/ Char(s, i) = "/" THEN i ELSE SegEnd(s, i + 1)

Digits == {"0", "1", "2", "3", "4", "5", "6", "7", "8", "9"}

\* \d* matched greedily from position i: the index just after the run.
RECURSIVE DigitsEnd(_, _)
DigitsEnd(s, i) ==
    IF i <= Len(s) /\ Char(s, i) \in Digits THEN DigitsEnd(s, i + 1) ELSE i

\* (?:^|\/) in front of position i.
Anchored(s, i) == i = 1 \/ Char(s, i - 1) = "/"

(***************************************************************************)
(* extractPluginNameFromPath                                               *)
(***************************************************************************)
\* Mutant of CapturePlus: ([^/]*)\/ , which lets an empty segment be captured.
CapturePlus_AllowEmpty(s, i) ==
    LET j == SegEnd(s, i)
    IN  IF j <= Len(s) THEN <<SubSeq(s, i, j - 1), j + 1>> ELSE <<>>

\* ([^/]+)\/ at position i: <<capture, index after the slash>>, or <<>>.
CapturePlus(s, i) ==
    LET j == SegEnd(s, i)
    IN  IF j > i /\ j <= Len(s) THEN <<SubSeq(s, i, j - 1), j + 1>> ELSE <<>>

\* ([^/]+)(?:\/|$) at position i: <<capture>>, or <<>>.
CapturePlusEnd(s, i) ==
    LET j == SegEnd(s, i)
    IN  IF j > i THEN <<SubSeq(s, i, j - 1)>> ELSE <<>>

\* [^/]*\/ at position i: <<index after the slash>>, or <<>>.
SkipStar(s, i) ==
    LET j == SegEnd(s, i)
    IN  IF j <= Len(s) THEN <<j + 1>> ELSE <<>>

\* /(?:^|\/)cache\/([^/]+)\/([^/]+)\/[^/]*\/skills\// tried at position i:
\* <<marketplace, plugin>> or <<>>.
CacheMatchAt(s, i) ==
    IF ~(Anchored(s, i) /\ StartsAt(s, i, "cache/")) THEN <<>>
    ELSE LET m == CapturePlus(s, i + 6)
         IN  IF m = <<>> THEN <<>>
             ELSE LET p == CapturePlus(s, m[2])
                  IN  IF p = <<>> THEN <<>>
                      ELSE LET v == SkipStar(s, p[2])
                           IN  IF v = <<>> THEN <<>>
                               ELSE IF StartsAt(s, v[1], "skills/")
                                    THEN <<m[1], p[1]>>
                                    ELSE <<>>

\* /(?:^|\/)marketplaces\/([^/]+)\/plugins\/([^/]+)(?:\/|$)/ tried at position i.
MarketplaceMatchAt(s, i) ==
    IF ~(Anchored(s, i) /\ StartsAt(s, i, "marketplaces/")) THEN <<>>
    ELSE LET m == CapturePlus(s, i + 13)
         IN  IF m = <<>> THEN <<>>
             ELSE IF ~StartsAt(s, m[2], "plugins/") THEN <<>>
                  ELSE LET p == CapturePlusEnd(s, m[2] + 8)
                       IN  IF p = <<>> THEN <<>> ELSE <<m[1], p[1]>>

\* /(?:^|\/)marketplaces\/([^/]+)\/skills\// tried at position i.
DirectSkillsMatchAt(s, i) ==
    IF ~(Anchored(s, i) /\ StartsAt(s, i, "marketplaces/")) THEN <<>>
    ELSE LET m == CapturePlus(s, i + 13)
         IN  IF m = <<>> THEN <<>>
             ELSE IF StartsAt(s, m[2], "skills/") THEN <<m[1]>> ELSE <<>>

\* One of the three patterns tried at position i.
PatternMatchAt(pattern, s, i) ==
    CASE pattern = "cache" -> CacheMatchAt(s, i)
      [] pattern = "marketplace" -> MarketplaceMatchAt(s, i)
      [] pattern = "directSkills" -> DirectSkillsMatchAt(s, i)

\* String.prototype.match without the g flag: the leftmost match.
RECURSIVE FirstMatch(_, _, _)
FirstMatch(pattern, s, i) ==
    IF i > Len(s) THEN <<>>
    ELSE LET r == PatternMatchAt(pattern, s, i)
         IN  IF r # <<>> THEN r ELSE FirstMatch(pattern, s, i + 1)

normalizePath(p) == ReplaceBackslashes(StripTrailingSlashes(p))

\* Mutant of extractPluginNameFromPath: the marketplace-plugins pattern is
\* tried before the cache pattern.
extractPluginNameFromPath_MarketplaceFirst(p) ==
    LET normalizedPath == normalizePath(p)
        cacheMatch == FirstMatch("cache", normalizedPath, 1)
        marketplaceMatch == FirstMatch("marketplace", normalizedPath, 1)
        directSkillsMatch == FirstMatch("directSkills", normalizedPath, 1)
    IN  IF marketplaceMatch # <<>>
        THEN <<marketplaceMatch[2] \o "@" \o marketplaceMatch[1]>>
        ELSE IF cacheMatch # <<>> THEN <<cacheMatch[2] \o "@" \o cacheMatch[1]>>
        ELSE IF directSkillsMatch # <<>>
             THEN <<directSkillsMatch[1] \o "@" \o directSkillsMatch[1]>>
        ELSE null

extractPluginNameFromPath(p) ==
    LET normalizedPath == normalizePath(p)
        cacheMatch == FirstMatch("cache", normalizedPath, 1)
        marketplaceMatch == FirstMatch("marketplace", normalizedPath, 1)
        directSkillsMatch == FirstMatch("directSkills", normalizedPath, 1)
    IN  IF cacheMatch # <<>> THEN <<cacheMatch[2] \o "@" \o cacheMatch[1]>>
        ELSE IF marketplaceMatch # <<>>
             THEN <<marketplaceMatch[2] \o "@" \o marketplaceMatch[1]>>
        ELSE IF directSkillsMatch # <<>>
             THEN <<directSkillsMatch[1] \o "@" \o directSkillsMatch[1]>>
        ELSE null

(***************************************************************************)
(* The filesystem: a record F of the directories, the regular files, the   *)
(* symbolic links (path -> stored target text), the directories that       *)
(* cannot be listed (no read permission), the calls that are rejected     *)
(* (pairs <<call, path>>) and the order in which readdir lists entry       *)
(* names.  Symbolic links occur only in the target directory and never     *)
(* point at another symbolic link.                                         *)
(***************************************************************************)
MAX_SKILLS == 100

\* path.join(a, b) for a normalized directory a and an entry name b.
join(a, b) == a \o "/" \o b

\* The call on the path p is rejected.
Fails(F, call, p) == <<call, p>> \in F.failing

\* lstat(p) finds an entry.
LExists(F, p) == p \in F.dirs \cup F.files \cup DOMAIN F.links

\* lstat(p).isSymbolicLink()
isSymbolicLink(F, p) == p \in DOMAIN F.links

\* The path stat and access look at: a symbolic link is followed.
Follow(F, p) == IF p \in DOMAIN F.links THEN F.links[p] ELSE p

\* exists(path): access(path, F_OK) succeeds.
exists(F, p) == Follow(F, p) \in F.dirs \cup F.files

\* isDirectory(path): stat(path) succeeds and is a directory.
isDirectory(F, p) == Follow(F, p) \in F.dirs

\* readdir(p): <<names>>, or <<>> when it throws (not a directory, or not
\* listable).
readdir(F, p) ==
    IF Follow(F, p) \notin F.dirs \/ Follow(F, p) \in F.unreadable THEN <<>>
    ELSE LET Listed(n) == LExists(F, join(Follow(F, p), n))
         IN  <<SelectSeq(F.order, Listed)>>

(***************************************************************************)
(* Version Comparator                                                      *)
(***************************************************************************)
DigitValue(c) ==
    CASE c = "0" -> 0 [] c = "1" -> 1 [] c = "2" -> 2 [] c = "3" -> 3 [] c = "4" -> 4
      [] c = "5" -> 5 [] c = "6" -> 6 [] c = "7" -> 7 [] c = "8" -> 8 [] c = "9" -> 9

\* parseInt of a run of digits.
RECURSIVE parseInt(_)
parseInt(d) ==
    IF Len(d) = 0 THEN 0
    ELSE 10 * parseInt(SubSeq(d, 1, Len(d) - 1)) + DigitValue(Char(d, Len(d)))

\* Mutant of parseVersion: the pattern ends with $, so text after the third
\* number is not tolerated.
parseVersion_WholeString(version) ==
    LET e1 == DigitsEnd(version, 1)
        e2 == DigitsEnd(version, e1 + 1)
        e3 == DigitsEnd(version, e2 + 1)
    IN  IF /\ e1 > 1 /\ StartsAt(version, e1, ".")
           /\ e2 > e1 + 1 /\ StartsAt(version, e2, ".")
           /\ e3 > e2 + 1 /\ e3 = Len(version) + 1
        THEN <<parseInt(SubSeq(version, 1, e1 - 1)),
               parseInt(SubSeq(version, e1 + 1, e2 - 1)),
               parseInt(SubSeq(version, e2 + 1, e3 - 1))>>
        ELSE <<0, 0, 0>>

\* version.match(/^(\d+)\.(\d+)\.(\d+)/), else [0, 0, 0].
parseVersion(version) ==
    LET e1 == DigitsEnd(version, 1)
        e2 == DigitsEnd(version, e1 + 1)
        e3 == DigitsEnd(version, e2 + 1)
    IN  IF /\ e1 > 1 /\ StartsAt(version, e1, ".")
           /\ e2 > e1 + 1 /\ StartsAt(version, e2, ".")
           /\ e3 > e2 + 1
        THEN <<parseInt(SubSeq(version, 1, e1 - 1)),
               parseInt(SubSeq(version, e1 + 1, e2 - 1)),
               parseInt(SubSeq(version, e2 + 1, e3 - 1))>>
        ELSE <<0, 0, 0>>

\* Mutant of compareVersions: the loop stops after the major number.
compareVersions_MajorOnly(a, b) == parseVersion(a)[1] - parseVersion(b)[1]

\* for (let i = 0; i < 3; i++) if (va[i] !== vb[i]) return va[i] - vb[i]; return 0
compareVersions(a, b) ==
    LET va == parseVersion(a)
        vb == parseVersion(b)
    IN  IF va[1] # vb[1] THEN va[1] - vb[1]
        ELSE IF va[2] # vb[2] THEN va[2] - vb[2]
        ELSE IF va[3] # vb[3] THEN va[3] - vb[3]
        ELSE 0

\* versions.sort(compareVersions): a stable sort.
RECURSIVE InsertVersion(_, _)
InsertVersion(sorted, v) ==
    IF Len(sorted) = 0 THEN <<v>>
    ELSE IF compareVersions(sorted[Len(sorted)], v) <= 0 THEN Append(sorted, v)
    ELSE Append(InsertVersion(SubSeq(sorted, 1, Len(sorted) - 1), v), sorted[Len(sorted)])

RECURSIVE SortVersions(_)
SortVersions(versions) ==
    IF Len(versions) = 0 THEN <<>>
    ELSE InsertVersion(SortVersions(SubSeq(versions, 1, Len(versions) - 1)),
                       versions[Len(versions)])

(***************************************************************************)
(* Skill Discoverer                                                        *)
(***************************************************************************)
SkillInfo(name, skillPath, version, source) ==
    [name |-> name, path |-> skillPath, version |-> version, source |-> source]

\* Mutant of LimitReached: the cap is compared with > instead of >= .
LimitReached_OffByOne(skills, limit) == Len(skills) > limit

\* if (skills.length >= limit) break
LimitReached(skills, limit) == Len(skills) >= limit

\* Mutant of SkillEntry: the marker file is not asked for.
SkillEntry_NoMarker(F, skillsDir, version, source, skillName, skills) ==
    LET skillPath == join(skillsDir, skillName)
    IN  IF isDirectory(F, skillPath)
        THEN Append(skills, SkillInfo(skillName, skillPath, version, source))
        ELSE skills

\* The body of `for (const skillName of skillNames)` after the limit test.
SkillEntry(F, skillsDir, version, source, skillName, skills) ==
    LET skillPath == join(skillsDir, skillName)
        skillMdPath == join(skillPath, "SKILL.md")
    IN  IF isDirectory(F, skillPath) /\ exists(F, skillMdPath)
        THEN Append(skills, SkillInfo(skillName, skillPath, version, source))
        ELSE skills

\* for (const skillName of skillNames) { if (limit reached) break; ... } over
\* the entries lo..hi in order: the first half of the range, then the second
\* half from what the first half left; after the break every later iteration
\* is skipped, so a range entered with the limit reached returns at once.
RECURSIVE SkillLoop(_, _, _, _, _, _, _, _, _)
SkillLoop(F, skillsDir, version, source, skillNames, lo, hi, skills, limit) ==
    IF lo > hi \/ LimitReached(skills, limit) THEN skills
    ELSE IF lo = hi
    THEN SkillEntry(F, skillsDir, version, source, skillNames[lo], skills)
    ELSE SkillLoop(F, skillsDir, version, source, skillNames, (lo + hi) \div 2 + 1, hi,
                   SkillLoop(F, skillsDir, version, source, skillNames,
                             lo, (lo + hi) \div 2, skills, limit),
                   limit)

\* Mutant of CachePlugin: the version directories are not sorted, the last
\* one listed is taken.
CachePlugin_Unsorted(F, marketplacePath, plugin, skills, limit) ==
    LET pluginPath == join(marketplacePath, plugin)
        versionEntries == readdir(F, pluginPath)
        IsVersionDir(v) == isDirectory(F, join(pluginPath, v))
        versions == SelectSeq(versionEntries[1], IsVersionDir)
        latestVersion == versions[Len(versions)]
        skillsDir == join(join(pluginPath, latestVersion), "skills")
        skillNames == readdir(F, skillsDir)
    IN  IF ~isDirectory(F, pluginPath) THEN skills
        ELSE IF Len(versionEntries) = 0 THEN skills
        ELSE IF Len(versions) = 0 THEN skills
        ELSE IF ~exists(F, skillsDir) THEN skills
        ELSE IF Len(skillNames) = 0 THEN skills
        ELSE SkillLoop(F, skillsDir, latestVersion, "cache", skillNames[1],
                       1, Len(skillNames[1]), skills, limit)

\* The body of the plugin loop of findSkillsInCache.
CachePlugin(F, marketplacePath, plugin, skills, limit) ==
    LET pluginPath == join(marketplacePath, plugin)
        versionEntries == readdir(F, pluginPath)
        IsVersionDir(v) == isDirectory(F, join(pluginPath, v))
        versions == SortVersions(SelectSeq(versionEntries[1], IsVersionDir))
        latestVersion == versions[Len(versions)]
        skillsDir == join(join(pluginPath, latestVersion), "skills")
        skillNames == readdir(F, skillsDir)
    IN  IF ~isDirectory(F, pluginPath) THEN skills
        ELSE IF Len(versionEntries) = 0 THEN skills
        ELSE IF Len(versions) = 0 THEN skills
        ELSE IF ~exists(F, skillsDir) THEN skills
        ELSE IF Len(skillNames) = 0 THEN skills
        ELSE SkillLoop(F, skillsDir, latestVersion, "cache", skillNames[1],
                       1, Len(skillNames[1]), skills, limit)

RECURSIVE CachePluginLoop(_, _, _, _, _, _)
CachePluginLoop(F, marketplacePath, plugins, k, skills, limit) ==
    IF k > Len(plugins) \/ LimitReached(skills, limit) THEN skills
    ELSE CachePluginLoop(F, marketplacePath, plugins, k + 1,
                         CachePlugin(F, marketplacePath, plugins[k], skills, limit), limit)

\* The body of the marketplace loop of findSkillsInCache.
CacheMarketplace(F, cacheDir, marketplace, skills, limit) ==
    LET marketplacePath == join(cacheDir, marketplace)
        plugins == readdir(F, marketplacePath)
    IN  IF ~isDirectory(F, marketplacePath) THEN skills
        ELSE IF Len(plugins) = 0 THEN skills
        ELSE CachePluginLoop(F, marketplacePath, plugins[1], 1, skills, limit)

RECURSIVE CacheMarketplaceLoop(_, _, _, _, _, _)
CacheMarketplaceLoop(F, cacheDir, marketplaces, k, skills, limit) ==
    IF k > Len(marketplaces) \/ LimitReached(skills, limit) THEN skills
    ELSE CacheMarketplaceLoop(F, cacheDir, marketplaces, k + 1,
                              CacheMarketplace(F, cacheDir, marketplaces[k], skills, limit),
                              limit)

findSkillsInCache(F, cacheDir, limit) ==
    LET marketplaces == readdir(F, cacheDir)
    IN  IF ~exists(F, cacheDir) THEN <<>>
        ELSE IF Len(marketplaces) = 0 THEN <<>>
        ELSE CacheMarketplaceLoop(F, cacheDir, marketplaces[1], 1, <<>>, limit)

\* The body of the plugin loop of findSkillsInMarketplaces.
MarketplacePlugin(F, pluginsDir, plugin, skills, limit) ==
    LET pluginPath == join(pluginsDir, plugin)
        skillsDir == join(pluginPath, "skills")
        skillNames == readdir(F, skillsDir)
    IN  IF ~isDirectory(F, pluginPath) THEN skills
        ELSE IF ~exists(F, skillsDir) THEN skills
        ELSE IF Len(skillNames) = 0 THEN skills
        ELSE SkillLoop(F, skillsDir, "latest", "marketplaces", skillNames[1],
                       1, Len(skillNames[1]), skills, limit)

RECURSIVE MarketplacePluginLoop(_, _, _, _, _, _)
MarketplacePluginLoop(F, pluginsDir, plugins, k, skills, limit) ==
    IF k > Len(plugins) \/ LimitReached(skills, limit) THEN skills
    ELSE MarketplacePluginLoop(F, pluginsDir, plugins, k + 1,
                               MarketplacePlugin(F, pluginsDir, plugins[k], skills, limit),
                               limit)

\* The direct skills directory of a marketplace (second half of the loop body).
MarketplaceDirect(F, marketplacePath, skills, limit) ==
    LET directSkillsDir == join(marketplacePath, "skills")
        skillNames == readdir(F, directSkillsDir)
    IN  IF ~(exists(F, directSkillsDir) /\ isDirectory(F, directSkillsDir)) THEN skills
        ELSE IF Len(skillNames) = 0 THEN skills
        ELSE SkillLoop(F, directSkillsDir, "latest", "marketplaces", skillNames[1],
                       1, Len(skillNames[1]), skills, limit)

\* The body of the marketplace loop of findSkillsInMarketplaces: a listing
\* failure of the plugins directory is a `continue`, so the direct skills
\* directory of that marketplace is not looked at.
Marketplace(F, marketplacesDir, marketplace, skills, limit) ==
    LET marketplacePath == join(marketplacesDir, marketplace)
        pluginsDir == join(marketplacePath, "plugins")
        plugins == readdir(F, pluginsDir)
    IN  IF ~isDirectory(F, marketplacePath) THEN skills
        ELSE IF exists(F, pluginsDir) /\ isDirectory(F, pluginsDir)
        THEN (IF Len(plugins) = 0 THEN skills
              ELSE MarketplaceDirect(F, marketplacePath,
                       MarketplacePluginLoop(F, pluginsDir, plugins[1], 1, skills, limit),
                       limit))
        ELSE MarketplaceDirect(F, marketplacePath, skills, limit)

RECURSIVE MarketplaceLoop(_, _, _, _, _, _)
MarketplaceLoop(F, marketplacesDir, marketplaces, k, skills, limit) ==
    IF k > Len(marketplaces) \/ LimitReached(skills, limit) THEN skills
    ELSE MarketplaceLoop(F, marketplacesDir, marketplaces, k + 1,
                         Marketplace(F, marketplacesDir, marketplaces[k], skills, limit),
                         limit)

findSkillsInMarketplaces(F, marketplacesDir, limit) ==
    LET marketplaces == readdir(F, marketplacesDir)
    IN  IF ~exists(F, marketplacesDir) THEN <<>>
        ELSE IF Len(marketplaces) = 0 THEN <<>>
        ELSE MarketplaceLoop(F, marketplacesDir, marketplaces[1], 1, <<>>, limit)

(***************************************************************************)
(* The skill map: a Map<string, SkillInfo>, kept as the sequence of its    *)
(* values in insertion order.                                              *)
(***************************************************************************)
MapNames(map) == {map[k].name : k \in 1..Len(map)}

MapHas(map, name) == name \in MapNames(map)

MapGet(map, name) == map[CHOOSE k \in 1..Len(map) : map[k].name = name]

\* map.set(skill.name, skill): a present key keeps its place.
MapSet(map, skill) ==
    IF MapHas(map, skill.name)
    THEN [k \in 1..Len(map) |-> IF map[k].name = skill.name THEN skill ELSE map[k]]
    ELSE Append(map, skill)

MapDelete(map, name) ==
    LET Other(sk) == sk.name # name IN SelectSeq(map, Other)

\* Mutant of MergeMarketplaceSkill: the marketplace entry is set without
\* looking for the name in the map.
MergeMarketplaceSkill_Overwrite(map, skill) == MapSet(map, skill)

\* if (!skillMap.has(skill.name)) skillMap.set(skill.name, skill)
MergeMarketplaceSkill(map, skill) ==
    IF MapHas(map, skill.name) THEN map ELSE MapSet(map, skill)

(***************************************************************************)
(* Mutating filesystem calls: each gives [ok, fs], ok = FALSE when the     *)
(* call throws and leaves the filesystem as it was.                        *)
(***************************************************************************)
\* The directories above p.
Ancestors(p) == {SubSeq(p, 1, i - 1) : i \in {j \in 2..Len(p) : Char(p, j) = "/"}}

\* dirname(p) of a normalized absolute path.
dirname(p) ==
    LET cut == CHOOSE i \in 1..Len(p) :
                   Char(p, i) = "/" /\ \A j \in (i + 1)..Len(p) : Char(p, j) # "/"
    IN  IF cut = 1 THEN "/" ELSE SubSeq(p, 1, cut - 1)

FsOp(op, p, target, ok) == [op |-> op, path |-> p, target |-> target, ok |-> ok]

\* unlink(p): removes a symbolic link or a regular file.
FsUnlink(F, p) ==
    IF Fails(F, "unlink", p) THEN [ok |-> FALSE, fs |-> F]
    ELSE IF p \in DOMAIN F.links
    THEN [ok |-> TRUE,
          fs |-> [F EXCEPT !.links = [q \in DOMAIN F.links \ {p} |-> F.links[q]]]]
    ELSE IF p \in F.files THEN [ok |-> TRUE, fs |-> [F EXCEPT !.files = @ \ {p}]]
    ELSE [ok |-> FALSE, fs |-> F]

\* Mutant of FsSymlink: an entry in the way is replaced by the link.
FsSymlink_Force(F, target, p) ==
    [ok |-> TRUE,
     fs |-> [F EXCEPT !.files = @ \ {p}, !.dirs = @ \ {p},
                      !.links = [q \in DOMAIN F.links \cup {p} |->
                                    IF q = p THEN target ELSE F.links[q]]]]

\* symlink(target, p): throws when p exists or its directory does not, or
\* when the call is rejected.
FsSymlink(F, target, p) ==
    IF Fails(F, "symlink", p) \/ LExists(F, p) \/ dirname(p) \notin F.dirs
    THEN [ok |-> FALSE, fs |-> F]
    ELSE [ok |-> TRUE,
          fs |-> [F EXCEPT !.links = [q \in DOMAIN F.links \cup {p} |->
                                         IF q = p THEN target ELSE F.links[q]]]]

\* mkdir(p, { recursive: true })
FsMkdir(F, p) ==
    IF (Ancestors(p) \cup {p}) \cap (F.files \cup DOMAIN F.links) # {}
    THEN [ok |-> FALSE, fs |-> F]
    ELSE [ok |-> TRUE, fs |-> [F EXCEPT !.dirs = @ \cup Ancestors(p) \cup {p}]]

(***************************************************************************)
(* syncSkills                                                              *)
(***************************************************************************)
home == "/home/u"
claudeDir == join(home, ".claude")
opencodeDir == join(join(home, ".config"), "opencode")
cacheDir == join(join(claudeDir, "plugins"), "cache")
marketplacesDir == join(join(claudeDir, "plugins"), "marketplaces")
targetDir == join(opencodeDir, "skill")

\* What one iteration of the loop over the target directory works on.
Reconciling(F, map, nCleaned, nUpdated, calls) ==
    [fs |-> F, skillMap |-> map, cleaned |-> nCleaned, updated |-> nUpdated, ops |-> calls]

\* Mutant of CleanEntry: the skill of the removed link stays in the map.
CleanEntry_KeepsSkill(R, entry) ==
    LET entryPath == join(targetDir, entry)
        u == FsUnlink(R.fs, entryPath)
    IN  IF ~u.ok
        THEN [R EXCEPT !.ops = Append(@, FsOp("unlink", entryPath, "", FALSE))]
        ELSE [R EXCEPT !.fs = u.fs,
                       !.cleaned = @ + 1,
                       !.ops = Append(@, FsOp("unlink", entryPath, "", TRUE))]

\* unlink(entryPath); cleaned++; if (skill) skillMap.delete(entry); continue
CleanEntry(R, entry) ==
    LET entryPath == join(targetDir, entry)
        u == FsUnlink(R.fs, entryPath)
    IN  IF ~u.ok
        THEN [R EXCEPT !.ops = Append(@, FsOp("unlink", entryPath, "", FALSE))]
        ELSE [R EXCEPT !.fs = u.fs,
                       !.cleaned = @ + 1,
                       !.skillMap = MapDelete(@, entry),
                       !.ops = Append(@, FsOp("unlink", entryPath, "", TRUE))]

\* Mutant of UpdateEntry: the replaced link is counted as cleaned as well.
UpdateEntry_CleanedToo(R, entry) ==
    LET entryPath == join(targetDir, entry)
        skill == MapGet(R.skillMap, entry)
        u == FsUnlink(R.fs, entryPath)
        l == FsSymlink(u.fs, skill.path, entryPath)
    IN  [R EXCEPT !.fs = l.fs,
                  !.cleaned = @ + 1,
                  !.updated = @ + 1,
                  !.skillMap = MapDelete(@, entry),
                  !.ops = @ \o <<FsOp("unlink", entryPath, "", u.ok),
                                 FsOp("symlink", entryPath, skill.path, l.ok)>>]

\* Mutant of UpdateEntry: the old link is removed and no new one is made.
UpdateEntry_UnlinkOnly(R, entry) ==
    LET entryPath == join(targetDir, entry)
        u == FsUnlink(R.fs, entryPath)
    IN  IF ~u.ok
        THEN [R EXCEPT !.ops = Append(@, FsOp("unlink", entryPath, "", FALSE))]
        ELSE [R EXCEPT !.fs = u.fs,
                       !.updated = @ + 1,
                       !.skillMap = MapDelete(@, entry),
                       !.ops = Append(@, FsOp("unlink", entryPath, "", TRUE))]

\* unlink(entryPath); symlink(skill.path, entryPath); updated++
\* and then skillMap.delete(entry); a call that throws ends the iteration.
UpdateEntry(R, entry) ==
    LET entryPath == join(targetDir, entry)
        skill == MapGet(R.skillMap, entry)
        u == FsUnlink(R.fs, entryPath)
        l == FsSymlink(u.fs, skill.path, entryPath)
    IN  IF ~u.ok
        THEN [R EXCEPT !.ops = Append(@, FsOp("unlink", entryPath, "", FALSE))]
        ELSE IF ~l.ok
        THEN [R EXCEPT !.fs = u.fs,
                       !.ops = @ \o <<FsOp("unlink", entryPath, "", TRUE),
                                      FsOp("symlink", entryPath, skill.path, FALSE)>>]
        ELSE [R EXCEPT !.fs = l.fs,
                       !.updated = @ + 1,
                       !.skillMap = MapDelete(@, entry),
                       !.ops = @ \o <<FsOp("unlink", entryPath, "", TRUE),
                                      FsOp("symlink", entryPath, skill.path, TRUE)>>]

\* Mutant of ReconcileEntryStep: only a broken link is removed; a link without
\* a skill of its name makes the iteration throw and is skipped.
ReconcileEntryStep_BrokenOnly(R, entry) ==
    LET entryPath == join(targetDir, entry)
        target == R.fs.links[entryPath]
        hasSkill == MapHas(R.skillMap, entry)
        targetExists == exists(R.fs, entryPath)
    IN  IF ~LExists(R.fs, entryPath) THEN R
        ELSE IF ~isSymbolicLink(R.fs, entryPath) THEN R
        ELSE IF ~targetExists THEN CleanEntry(R, entry)
        ELSE IF ~hasSkill THEN R
        ELSE IF target # MapGet(R.skillMap, entry).path THEN UpdateEntry(R, entry)
        ELSE [R EXCEPT !.skillMap = MapDelete(@, entry)]

\* Mutant of ReconcileEntryStep: a valid link of a discovered skill is replaced
\* whatever its target.
ReconcileEntryStep_AlwaysRelink(R, entry) ==
    LET entryPath == join(targetDir, entry)
        hasSkill == MapHas(R.skillMap, entry)
        targetExists == exists(R.fs, entryPath)
    IN  IF ~LExists(R.fs, entryPath) THEN R
        ELSE IF ~isSymbolicLink(R.fs, entryPath) THEN R
        ELSE IF ~targetExists \/ ~hasSkill THEN CleanEntry(R, entry)
        ELSE UpdateEntry(R, entry)

\* Mutant of ReconcileEntryStep: a valid link of a discovered skill is left
\* as it is, whatever it points at.
ReconcileEntryStep_KeepsOutdated(R, entry) ==
    LET entryPath == join(targetDir, entry)
        hasSkill == MapHas(R.skillMap, entry)
        targetExists == exists(R.fs, entryPath)
    IN  IF ~LExists(R.fs, entryPath) THEN R
        ELSE IF ~isSymbolicLink(R.fs, entryPath) THEN R
        ELSE IF ~targetExists \/ ~hasSkill THEN CleanEntry(R, entry)
        ELSE [R EXCEPT !.skillMap = MapDelete(@, entry)]

\* The body of `for (const entry of entries)`.
ReconcileEntryStep(R, entry) ==
    LET entryPath == join(targetDir, entry)
        target == R.fs.links[entryPath]
        hasSkill == MapHas(R.skillMap, entry)
        targetExists == exists(R.fs, entryPath)
    IN  IF ~LExists(R.fs, entryPath) THEN R
        ELSE IF ~isSymbolicLink(R.fs, entryPath) THEN R
        ELSE IF ~targetExists \/ ~hasSkill THEN CleanEntry(R, entry)
        ELSE IF target # MapGet(R.skillMap, entry).path THEN UpdateEntry(R, entry)
        ELSE [R EXCEPT !.skillMap = MapDelete(@, entry)]

SummaryMessage(nFound, nCreated, nUpdated, nCleaned) ==
    "Synced " \o ToString(nFound) \o " skills (limit: " \o ToString(MAX_SKILLS) \o "): "
    \o ToString(nCreated) \o " created, " \o ToString(nUpdated) \o " updated, "
    \o ToString(nCleaned) \o " cleaned"

\* } catch (err) { console.error("[claude-skill-sync] Sync failed:", err) }
SyncFailed == Append(console, "[claude-skill-sync] Sync failed:")

\* client.app.log(msg) inside the try block: a log sink that throws takes the
\* pass to the outer catch.
AppLog(msg) ==
    IF env.log = "throws"
    THEN log' = log /\ console' = SyncFailed
    ELSE log' = Append(log, msg) /\ console' = console

\* if (!(await exists(claudeDir))) { log(...); return }; the pass runs on
\* after its first await once the entry point has returned.
NotInstalled ==
    /\ pc = "start"
    /\ hooks # null
    /\ ~exists(fs, claudeDir)
    /\ AppLog("Claude Code not installed, skipping")
    /\ pc' = "done"
    /\ UNCHANGED <<extractVars, manifestVars, cleanupVars, env, hooks, hostError, versionVars, passVars>>
    /\ UNCHANGED <<fs, fs0, cacheSkills, remainingLimit, marketplaceSkills, skillMap,
                   discovered, totalFound, entries, idx, cleaned, updated, created, ops>>

\* const cacheSkills = await findSkillsInCache(cacheDir, MAX_SKILLS)
ScanCache ==
    /\ pc = "start"
    /\ hooks # null
    /\ exists(fs, claudeDir)
    /\ cacheSkills' = findSkillsInCache(fs, cacheDir, MAX_SKILLS)
    /\ pc' = "cacheScanned"
    /\ UNCHANGED <<extractVars, manifestVars, cleanupVars, hostVars, versionVars, passVars>>
    /\ UNCHANGED <<fs, fs0, remainingLimit, marketplaceSkills, skillMap, discovered,
                   totalFound, entries, idx, cleaned, updated, created, log, ops>>

\* const remainingLimit = ...; const marketplaceSkills = remainingLimit > 0 ? ... : []
ScanMarketplaces ==
    /\ pc = "cacheScanned"
    /\ remainingLimit' = MAX_SKILLS - Len(cacheSkills)
    /\ marketplaceSkills' =
           IF remainingLimit' > 0
           THEN findSkillsInMarketplaces(fs, marketplacesDir, remainingLimit')
           ELSE <<>>
    /\ pc' = "scanned"
    /\ UNCHANGED <<extractVars, manifestVars, cleanupVars, hostVars, versionVars, passVars>>
    /\ UNCHANGED <<fs, fs0, cacheSkills, skillMap, discovered, totalFound, entries, idx,
                   cleaned, updated, created, log, ops>>

\* One iteration of `for (const skill of cacheSkills) skillMap.set(...)`.
MergeCacheSkill ==
    /\ pc = "scanned"
    /\ idx <= Len(cacheSkills)
    /\ skillMap' = MapSet(skillMap, cacheSkills[idx])
    /\ idx' = idx + 1
    /\ UNCHANGED <<extractVars, manifestVars, cleanupVars, hostVars, versionVars, passVars>>
    /\ UNCHANGED <<pc, fs, fs0, cacheSkills, remainingLimit, marketplaceSkills, discovered,
                   totalFound, entries, cleaned, updated, created, log, ops>>

\* The end of the loop over cacheSkills.
EndMergeCache ==
    /\ pc = "scanned"
    /\ idx > Len(cacheSkills)
    /\ idx' = 1
    /\ pc' = "cacheMerged"
    /\ UNCHANGED <<extractVars, manifestVars, cleanupVars, hostVars, versionVars, passVars>>
    /\ UNCHANGED <<fs, fs0, cacheSkills, remainingLimit, marketplaceSkills, skillMap,
                   discovered, totalFound, entries, cleaned, updated, created, log, ops>>

\* One iteration of `for (const skill of marketplaceSkills)`.
MergeMarketplace ==
    /\ pc = "cacheMerged"
    /\ idx <= Len(marketplaceSkills)
    /\ skillMap' = MergeMarketplaceSkill(skillMap, marketplaceSkills[idx])
    /\ idx' = idx + 1
    /\ UNCHANGED <<extractVars, manifestVars, cleanupVars, hostVars, versionVars, passVars>>
    /\ UNCHANGED <<pc, fs, fs0, cacheSkills, remainingLimit, marketplaceSkills, discovered,
                   totalFound, entries, cleaned, updated, created, log, ops>>

\* Mutant of Merge: the pass goes on when the map is empty.
Merge_NoEarlyReturn ==
    /\ pc = "cacheMerged"
    /\ idx > Len(marketplaceSkills)
    /\ idx' = 1
    /\ discovered' = skillMap
    /\ totalFound' = Len(skillMap)
    /\ pc' = "merged"
    /\ UNCHANGED <<extractVars, manifestVars, cleanupVars, hostVars, versionVars, passVars>>
    /\ UNCHANGED <<fs, fs0, cacheSkills, remainingLimit, marketplaceSkills, skillMap,
                   entries, cleaned, updated, created, log, ops>>

\* The end of the merge: totalFound, and the return when the map is empty.
Merge ==
    /\ pc = "cacheMerged"
    /\ idx > Len(marketplaceSkills)
    /\ idx' = 1
    /\ discovered' = skillMap
    /\ totalFound' = Len(skillMap)
    /\ IF totalFound' = 0
       THEN AppLog("No skills found") /\ pc' = "done"
       ELSE log' = log /\ console' = console /\ pc' = "merged"
    /\ UNCHANGED <<extractVars, manifestVars, cleanupVars, env, hooks, hostError, versionVars, passVars>>
    /\ UNCHANGED <<fs, fs0, cacheSkills, remainingLimit, marketplaceSkills, skillMap,
                   entries, cleaned, updated, created, ops>>

\* mkdir of a missing target directory, the counters, and the listing of the
\* target directory; a listing that throws is caught by the outer catch.
ListTarget ==
    /\ pc = "merged"
    /\ LET missing == ~exists(fs, targetDir)
           made == IF missing THEN FsMkdir(fs, targetDir) ELSE [ok |-> TRUE, fs |-> fs]
           listing == readdir(made.fs, targetDir)
       IN  /\ fs' = made.fs
           /\ ops' = IF missing THEN Append(ops, FsOp("mkdir", targetDir, "", made.ok))
                     ELSE ops
           /\ IF ~made.ok \/ (exists(made.fs, targetDir) /\ Len(listing) = 0)
              THEN pc' = "done" /\ entries' = entries /\ console' = SyncFailed
              ELSE /\ pc' = "reconcile"
                   /\ entries' = IF exists(made.fs, targetDir) THEN listing[1] ELSE <<>>
                   /\ console' = console
    /\ cleaned' = 0 /\ updated' = 0 /\ created' = 0
    /\ idx' = 1
    /\ UNCHANGED <<extractVars, manifestVars, cleanupVars, env, hooks, hostError, versionVars, passVars>>
    /\ UNCHANGED <<fs0, cacheSkills, remainingLimit, marketplaceSkills, skillMap,
                   discovered, totalFound, log>>

\* One iteration of `for (const entry of entries)`.
ReconcileEntry ==
    /\ pc = "reconcile"
    /\ idx <= Len(entries)
    /\ LET R == ReconcileEntryStep(Reconciling(fs, skillMap, cleaned, updated, ops),
                                   entries[idx])
       IN  /\ fs' = R.fs
           /\ skillMap' = R.skillMap
           /\ cleaned' = R.cleaned
           /\ updated' = R.updated
           /\ ops' = R.ops
    /\ idx' = idx + 1
    /\ UNCHANGED <<extractVars, manifestVars, cleanupVars, hostVars, versionVars, passVars>>
    /\ UNCHANGED <<pc, fs0, cacheSkills, remainingLimit, marketplaceSkills, discovered,
                   totalFound, entries, created, log>>

\* The loop over the entries is over: on to `for (const [name, skill] of skillMap)`.
EndReconcile ==
    /\ pc = "reconcile"
    /\ idx > Len(entries)
    /\ pc' = "create"
    /\ idx' = 1
    /\ UNCHANGED <<extractVars, manifestVars, cleanupVars, hostVars, versionVars, passVars>>
    /\ UNCHANGED <<fs, fs0, cacheSkills, remainingLimit, marketplaceSkills, skillMap,
                   discovered, totalFound, entries, cleaned, updated, created, log, ops>>

\* Mutant of CreateLink: a creation that fails ends the loop.
CreateLink_StopsAtFailure ==
    /\ pc = "create"
    /\ idx <= Len(skillMap)
    /\ LET skill == skillMap[idx]
           linkPath == join(targetDir, skill.name)
           l == FsSymlink(fs, skill.path, linkPath)
       IN  /\ fs' = l.fs
           /\ created' = IF l.ok THEN created + 1 ELSE created
           /\ ops' = Append(ops, FsOp("symlink", linkPath, skill.path, l.ok))
           /\ idx' = IF l.ok THEN idx + 1 ELSE Len(skillMap) + 1
    /\ UNCHANGED <<extractVars, manifestVars, cleanupVars, hostVars, versionVars, passVars>>
    /\ UNCHANGED <<pc, fs0, cacheSkills, remainingLimit, marketplaceSkills, skillMap,
                   discovered, totalFound, entries, cleaned, updated, log>>

\* Mutant of CreateLink: the link is made to the directory above the skill.
CreateLink_LinksParent ==
    /\ pc = "create"
    /\ idx <= Len(skillMap)
    /\ LET skill == skillMap[idx]
           linkPath == join(targetDir, skill.name)
           l == FsSymlink(fs, dirname(skill.path), linkPath)
       IN  /\ fs' = l.fs
           /\ created' = IF l.ok THEN created + 1 ELSE created
           /\ ops' = Append(ops, FsOp("symlink", linkPath, dirname(skill.path), l.ok))
    /\ idx' = idx + 1
    /\ UNCHANGED <<extractVars, manifestVars, cleanupVars, hostVars, versionVars, passVars>>
    /\ UNCHANGED <<pc, fs0, cacheSkills, remainingLimit, marketplaceSkills, skillMap,
                   discovered, totalFound, entries, cleaned, updated, log>>

\* One iteration of the creation loop.
CreateLink ==
    /\ pc = "create"
    /\ idx <= Len(skillMap)
    /\ LET skill == skillMap[idx]
           linkPath == join(targetDir, skill.name)
           l == FsSymlink(fs, skill.path, linkPath)
       IN  /\ fs' = l.fs
           /\ created' = IF l.ok THEN created + 1 ELSE created
           /\ ops' = Append(ops, FsOp("symlink", linkPath, skill.path, l.ok))
    /\ idx' = idx + 1
    /\ UNCHANGED <<extractVars, manifestVars, cleanupVars, hostVars, versionVars, passVars>>
    /\ UNCHANGED <<pc, fs0, cacheSkills, remainingLimit, marketplaceSkills, skillMap,
                   discovered, totalFound, entries, cleaned, updated, log>>

\* The summary given to client.app.log.
LogSummary ==
    /\ pc = "create"
    /\ idx > Len(skillMap)
    /\ AppLog(SummaryMessage(totalFound, created, updated, cleaned))
    /\ pc' = "done"
    /\ UNCHANGED <<extractVars, manifestVars, cleanupVars, env, hooks, hostError, versionVars, passVars>>
    /\ UNCHANGED <<fs, fs0, cacheSkills, remainingLimit, marketplaceSkills, skillMap,
                   discovered, totalFound, entries, idx, cleaned, updated, created, ops>>

(***************************************************************************)
(* JSON.parse, for texts without escape sequences, fractions or exponents. *)
(* A parsed value is a record [t, keys, vals]: t is "object", "array",     *)
(* "string", "number", "boolean" or "null"; keys and vals hold an object's *)
(* members in text order (an array has vals only); a string keeps its text *)
(* in keys[1], a number its digits, a boolean "true" or "false".           *)
(* A parse step returns <<value, next index>>, or <<>> for a SyntaxError.  *)
(***************************************************************************)
JsonValue(t, keys, vals) == [t |-> t, keys |-> keys, vals |-> vals]

undefined == JsonValue("undefined", <<>>, <<>>)

RECURSIVE SkipWs(_, _)
SkipWs(s, i) ==
    IF i <= Len(s) /\ Char(s, i) \in {" ", "\n", "\t", "\r"} THEN SkipWs(s, i + 1) ELSE i

\* The index of the closing quote of the string whose text starts at i, or 0.
RECURSIVE StringEnd(_, _)
StringEnd(s, i) ==
    IF i > Len(s) \/ Char(s, i) = "\\" THEN 0
    ELSE IF Char(s, i) = "\"" THEN i
    ELSE StringEnd(s, i + 1)

ParseString(s, i) ==
    IF ~StartsAt(s, i, "\"") THEN <<>>
    ELSE LET e == StringEnd(s, i + 1)
         IN  IF e = 0 THEN <<>>
             ELSE <<JsonValue("string", <<SubSeq(s, i + 1, e - 1)>>, <<>>), e + 1>>

ParseNumber(s, i) ==
    LET d == IF StartsAt(s, i, "-") THEN i + 1 ELSE i
        e == DigitsEnd(s, d)
    IN  IF e = d \/ (e > d + 1 /\ Char(s, d) = "0") THEN <<>>
        ELSE <<JsonValue("number", <<SubSeq(s, i, e - 1)>>, <<>>), e>>

RECURSIVE ParseValue(_, _), ParseMembers(_, _, _, _), ParseElements(_, _, _)

\* value := ws (object | array | string | number | true | false | null) ws
ParseValue(s, i0) ==
    LET i == SkipWs(s, i0)
        Done(r) == IF Len(r) = 0 THEN <<>> ELSE <<r[1], SkipWs(s, r[2])>>
    IN  IF StartsAt(s, i, "{")
        THEN (IF StartsAt(s, SkipWs(s, i + 1), "}")
              THEN Done(<<JsonValue("object", <<>>, <<>>), SkipWs(s, i + 1) + 1>>)
              ELSE Done(ParseMembers(s, i + 1, <<>>, <<>>)))
        ELSE IF StartsAt(s, i, "[")
        THEN (IF StartsAt(s, SkipWs(s, i + 1), "]")
              THEN Done(<<JsonValue("array", <<>>, <<>>), SkipWs(s, i + 1) + 1>>)
              ELSE Done(ParseElements(s, i + 1, <<>>)))
        ELSE IF StartsAt(s, i, "\"") THEN Done(ParseString(s, i))
        ELSE IF StartsAt(s, i, "true")
        THEN Done(<<JsonValue("boolean", <<"true">>, <<>>), i + 4>>)
        ELSE IF StartsAt(s, i, "false")
        THEN Done(<<JsonValue("boolean", <<"false">>, <<>>), i + 5>>)
        ELSE IF StartsAt(s, i, "null") THEN Done(<<JsonValue("null", <<>>, <<>>), i + 4>>)
        ELSE Done(ParseNumber(s, i))

\* members := ws string ws ':' value (',' members)? '}'
ParseMembers(s, i0, keys, vals) ==
    LET k == ParseString(s, SkipWs(s, i0))
    IN  IF Len(k) = 0 THEN <<>>
        ELSE LET c == SkipWs(s, k[2])
             IN  IF ~StartsAt(s, c, ":") THEN <<>>
                 ELSE LET v == ParseValue(s, c + 1)
                      IN  IF Len(v) = 0 THEN <<>>
                          ELSE LET ks == Append(keys, k[1].keys[1])
                                   vs == Append(vals, v[1])
                               IN  IF StartsAt(s, v[2], ",")
                                   THEN ParseMembers(s, v[2] + 1, ks, vs)
                                   ELSE IF StartsAt(s, v[2], "}")
                                   THEN <<JsonValue("object", ks, vs), v[2] + 1>>
                                   ELSE <<>>

\* elements := value (',' elements)? ']'
ParseElements(s, i0, vals) ==
    LET v == ParseValue(s, i0)
    IN  IF Len(v) = 0 THEN <<>>
        ELSE LET vs == Append(vals, v[1])
             IN  IF StartsAt(s, v[2], ",") THEN ParseElements(s, v[2] + 1, vs)
                 ELSE IF StartsAt(s, v[2], "]")
                 THEN <<JsonValue("array", <<>>, vs), v[2] + 1>>
                 ELSE <<>>

\* JSON.parse(text): <<value>>, or <<>> when it throws.
JSONparse(text) ==
    LET r == ParseValue(text, 1)
    IN  IF Len(r) = 0 \/ r[2] # Len(text) + 1 THEN <<>> ELSE <<r[1]>>

\* typeof v
TypeOf(v) == IF v.t \in {"object", "array", "null"} THEN "object" ELSE v.t

\* !v is false
Truthy(v) ==
    CASE v.t \in {"undefined", "null"} -> FALSE
      [] v.t = "boolean" -> v.keys[1] = "true"
      [] v.t = "number" -> v.keys[1] \notin {"0", "-0"}
      [] v.t = "string" -> v.keys[1] # ""
      [] OTHER -> TRUE

\* v[name] of a parsed value: the last member of that name, else undefined.
Member(v, name) ==
    IF v.t = "object" /\ \E k \in 1..Len(v.keys) : v.keys[k] = name
    THEN v.vals[CHOOSE k \in 1..Len(v.keys) :
                   /\ v.keys[k] = name
                   /\ \A j \in (k + 1)..Len(v.keys) : v.keys[j] # name]
    ELSE undefined

\* Object.keys(v), as the set new Set(...) makes of it.
ObjectKeys(v) ==
    IF v.t = "array" THEN {ToString(k - 1) : k \in 1..Len(v.vals)}
    ELSE {v.keys[k] : k \in 1..Len(v.keys)}

(***************************************************************************)
(* readInstalledPlugins                                                    *)
(***************************************************************************)
\* Mutant of readInstalledPlugins: a text that does not parse is read as a
\* manifest without plugins (an empty set instead of null).
readInstalledPlugins_FailOpen(text) ==
    LET r == JSONparse(text)
    IN  IF Len(r) = 0 THEN <<{}>>
        ELSE LET parsed == r[1]
                 plugins == Member(parsed, "plugins")
             IN  IF ~Truthy(parsed) \/ TypeOf(parsed) # "object" THEN null
                 ELSE IF \/ ~Truthy(plugins)
                         \/ TypeOf(plugins) # "object"
                         \/ plugins.t = "array"
                 THEN null
                 ELSE <<ObjectKeys(plugins)>>

readInstalledPlugins(text) ==
    LET r == JSONparse(text)
    IN  IF Len(r) = 0 THEN null
        ELSE LET parsed == r[1]
                 plugins == Member(parsed, "plugins")
             IN  IF ~Truthy(parsed) \/ TypeOf(parsed) # "object" THEN null
                 ELSE IF \/ ~Truthy(plugins)
                         \/ TypeOf(plugins) # "object"
                         \/ plugins.t = "array"
                 THEN null
                 ELSE <<ObjectKeys(plugins)>>

(***************************************************************************)
(* Inputs of extractPluginNameFromPath                                     *)
(***************************************************************************)
MaxSegs == 4
MaxEdits == 1

Keywords == {"cache", "marketplaces", "plugins", "skills"}
ShortSegs == Keywords \cup {"m", ""}

SeqsUpTo(S, n) == UNION {[1..k -> S] : k \in 0..n}

Shapes ==
    { <<"cache", "m1", "p1", "v", "skills", "x">>,
      <<"marketplaces", "m2", "plugins", "p2">>,
      <<"marketplaces", "m2", "plugins", "p2", "skills", "x">>,
      <<"marketplaces", "m3", "skills", "x">> }

\* A shape with at most k of its segments replaced.
RECURSIVE Edits(_, _)
Edits(t, k) ==
    IF k = 0 THEN {t}
    ELSE LET E == Edits(t, k - 1)
         IN  E \cup { [e EXCEPT ![i] = w] :
                        e \in E, i \in 1..Len(t), w \in Keywords \cup {"", "q"} }

Prefixes == { <<>>, <<"">>, <<"h">>, <<"", "h", "cache">> }
Suffixes == { <<>>, <<"">>, <<"y">> }

TestPaths ==
    { <<"", "cache", "claude-plugins-official", "backend-development",
        "e30768372b41", "skills", "python-tdd">>,
      <<"", "marketplaces", "claude-code-workflows", "plugins", "rust-systems",
        "skills", "rust-systems">>,
      <<"", "marketplaces", "custom-marketplace", "skills", "global-skill">>,
      <<"", "some", "random", "path", "that", "doesnt", "match", "pattern">>,
      <<"cache", "marketplace", "plugin", "version", "skills", "skill">>,
      <<"", "cache", "marketplace", "plugin", "version", "skills", "skill", "">>,
      <<"", "marketplaces", "some-marketplace", "plugins", "my-plugin", "skills",
        "skill", "">>,
      <<"", "cache", "marketplace", "", "version", "skills", "skill">> }

SegInputs ==
    SeqsUpTo(ShortSegs, MaxSegs)
    \cup { pre \o e \o post :
             pre \in Prefixes, post \in Suffixes,
             e \in UNION {Edits(t, MaxEdits) : t \in Shapes} }
    \cup { a \o b : a \in Shapes, b \in Shapes }
    \cup TestPaths

\* The text of a path: its segments joined with the separator style.
RECURSIVE Render(_, _, _)
Render(ss, style, k) ==
    IF Len(ss) = 0 THEN ""
    ELSE IF Len(ss) = 1 THEN ss[1]
    ELSE ss[1]
         \o (IF style = "mix" THEN (IF k % 2 = 0 THEN "/" ELSE "\\") ELSE style)
         \o Render(Tail(ss), style, k + 1)

(***************************************************************************)
(* Specification of the calls of extractPluginNameFromPath                 *)
(***************************************************************************)
EmptyFs ==
    [dirs |-> {}, files |-> {}, links |-> <<>>, unreadable |-> {}, failing |-> {},
     order |-> <<>>]

SyncIdle ==
    /\ fs = EmptyFs /\ fs0 = EmptyFs
    /\ cacheSkills = <<>> /\ remainingLimit = 0 /\ marketplaceSkills = <<>>
    /\ skillMap = <<>> /\ discovered = <<>> /\ totalFound = 0
    /\ entries = <<>> /\ idx = 1
    /\ cleaned = 0 /\ updated = 0 /\ created = 0
    /\ log = <<>> /\ ops = <<>>

ExtractIdle == segs = <<>> /\ sep = "/" /\ path = "" /\ pluginName = null
ManifestIdle == manifest = <<>> /\ content = "" /\ installedPlugins = null
CleanupIdle == removed = 0

\* The entry point has returned its hooks and nothing the host provides throws.
PassIdle == firstPass = null

VersionIdle ==
    versionList = <<>> /\ parsedList = <<>> /\ compared = <<>> /\ sortedList = <<>>

HostIdle ==
    /\ env = [homedir |-> "ok", log |-> "ok"]
    /\ hooks = <<{}>>
    /\ console = <<>>
    /\ hostError = FALSE

InitExtract ==
    /\ pc = "extract"
    /\ segs \in SegInputs
    /\ sep \in {"/", "\\", "mix"}
    /\ path = Render(segs, sep, 0)
    /\ pluginName = null
    /\ ManifestIdle
    /\ VersionIdle
    /\ PassIdle
    /\ SyncIdle
    /\ CleanupIdle
    /\ HostIdle

ExtractCall ==
    /\ pc = "extract"
    /\ pluginName' = extractPluginNameFromPath(path)
    /\ pc' = "extracted"
    /\ UNCHANGED <<segs, sep, path, manifestVars, syncVars, cleanupVars, hostVars, versionVars, passVars>>

NextExtract == ExtractCall

SpecExtract == InitExtract /\ [][NextExtract]_vars

(***************************************************************************)
(* Inputs of readInstalledPlugins: manifest texts built from a description *)
(***************************************************************************)
MaxPlugins == 2
MaxCut == 3

PluginKeys == {"p1@m1", "p2@m2"}

MemberTexts == <<"{}", "[{\"scope\":\"user\"}]", "1">>

RECURSIVE MembersText(_, _)
MembersText(keys, k) ==
    IF k > Len(keys) THEN ""
    ELSE (IF k > 1 THEN "," ELSE "")
         \o "\"" \o keys[k] \o "\":" \o MemberTexts[(k % Len(MemberTexts)) + 1]
         \o MembersText(keys, k + 1)

PluginsValue(kind, keys, text) == [kind |-> kind, keys |-> keys, text |-> text]

\* The values the `plugins` member is given.
PluginsValues ==
    { PluginsValue("object", ks, "{" \o MembersText(ks, 1) \o "}") :
        ks \in SeqsUpTo(PluginKeys, MaxPlugins) }
    \cup { PluginsValue("array", <<>>, t) : t \in {"[]", "[\"p1@m1\"]"} }
    \cup { PluginsValue("primitive", <<>>, t) :
             t \in {"null", "0", "7", "\"\"", "\"p1@m1\"", "true", "false"} }

\* Texts that parse to an object whose last `plugins` member is the value.
ReadableForms == {"versionFirst", "pluginsOnly", "pluginsFirst", "spaced", "duplicate"}
\* Texts that parse, but to something without a top-level `plugins` member.
NoPluginsForms == {"missing", "wrongKey", "nested", "arrayRoot", "bare"}
\* Texts JSON.parse rejects.
MalformedForms == {"garbage", "unquoted", "singleQuotes", "empty"}

Wrap(form, v) ==
    CASE form = "versionFirst" -> "{\"version\":1,\"plugins\":" \o v \o "}"
      [] form = "pluginsOnly" -> "{\"plugins\":" \o v \o "}"
      [] form = "pluginsFirst" -> "{\"plugins\":" \o v \o ",\"version\":1}"
      [] form = "spaced" -> " {\n\t\"version\" : 1 ,\n\t\"plugins\" : " \o v \o " }\n"
      [] form = "duplicate" -> "{\"plugins\":[],\"plugins\":" \o v \o "}"
      [] form = "missing" -> "{\"version\":1}"
      [] form = "wrongKey" -> "{\"version\":1,\"Plugins\":" \o v \o "}"
      [] form = "nested" -> "{\"data\":{\"plugins\":" \o v \o "}}"
      [] form = "arrayRoot" -> "[{\"plugins\":" \o v \o "}]"
      [] form = "bare" -> v
      [] form = "garbage" -> "{\"plugins\":" \o v \o "}}"
      [] form = "unquoted" -> "{plugins:" \o v \o "}"
      [] form = "singleQuotes" -> "{'plugins':" \o v \o "}"
      [] form = "empty" -> ""

\* A manifest: the form of the text, the plugins value, and how many
\* characters are missing at its end (a truncated file).
Manifests ==
    { [form |-> f, plugins |-> v, cut |-> c] :
        f \in ReadableForms \cup NoPluginsForms \cup MalformedForms,
        v \in PluginsValues,
        c \in 0..MaxCut }

ManifestText(m) ==
    LET t == Wrap(m.form, m.plugins.text)
    IN  SubSeq(t, 1, Len(t) - m.cut)

\* A truncated text is counted as such when it starts with a bracket that
\* the cut leaves open.
Truncated(m) == m.cut > 0 /\ m.form \in ReadableForms \ {"spaced"}

(***************************************************************************)
(* Specification of the calls of readInstalledPlugins                      *)
(***************************************************************************)
InitManifest ==
    /\ pc = "read"
    /\ manifest \in {m \in Manifests : m.cut = 0 \/ Truncated(m)}
    /\ content = ManifestText(manifest)
    /\ installedPlugins = null
    /\ ExtractIdle
    /\ VersionIdle
    /\ PassIdle
    /\ SyncIdle
    /\ CleanupIdle
    /\ HostIdle

ReadCall ==
    /\ pc = "read"
    /\ installedPlugins' = readInstalledPlugins(content)
    /\ pc' = "readDone"
    /\ UNCHANGED <<manifest, content, extractVars, syncVars, cleanupVars, hostVars, versionVars, passVars>>

NextManifest == ReadCall

SpecManifest == InitManifest /\ [][NextManifest]_vars

\* C8: readInstalledPlugins returns null for a text that does not parse, for
\* a root without a `plugins` member, and for a `plugins` member that is null,
\* an array or a primitive; it returns the set of the keys of `plugins` when
\* that is a non-array object, the empty set for `{}`: never null for a
\* readable manifest and never a set for an unreadable one.
C8_NullIffUnreadable ==
    pc = "readDone" =>
        installedPlugins =
            IF /\ manifest.form \in ReadableForms
               /\ manifest.cut = 0
               /\ manifest.plugins.kind = "object"
            THEN <<{manifest.plugins.keys[k] : k \in 1..Len(manifest.plugins.keys)}>>
            ELSE null

\* `plugins: {}` has been read as the empty set.
C8_Witness ==
    /\ pc = "readDone"
    /\ content = "{\"version\":1,\"plugins\":{}}"
    /\ installedPlugins = <<{}>>

(***************************************************************************)
(* Initial filesystems of a sync pass                                      *)
(***************************************************************************)
Extra == 1

A1Path == cacheDir \o "/m1/p1/1.0.0/skills/alpha"
A2Path == cacheDir \o "/m1/p1/2.0.0/skills/alpha"
B2Path == cacheDir \o "/m1/p1/2.0.0/skills/beta"
MAPath == marketplacesDir \o "/m2/plugins/p2/skills/alpha"
MGPath == marketplacesDir \o "/m2/plugins/p2/skills/gamma"
MDPath == marketplacesDir \o "/m2/skills/delta"
CGPath == cacheDir \o "/m2/p2/1.0.0/skills/gamma"
MZPath == marketplacesDir \o "/m2/plugins/pb/skills/zeta"
BulkCachePath(i) == cacheDir \o "/m1/pb/1.0.0/skills/b" \o ToString(i)
BulkMarketPath(i) == marketplacesDir \o "/mb/skills/c" \o ToString(i)

\* The skill directories a source tree holds: A1 and A2 are two versions of
\* the cache plugin p1 with the skill alpha, B2 a directory without SKILL.md
\* next to A2, MA and MG the skills alpha and gamma of the marketplace plugin
\* p2, MD the skill delta in the flat layout of the same marketplace; XP makes
\* the plugins directory of that marketplace unlistable.
Features == {"A1", "A2", "B2", "MA", "MG", "MD"}

FeaturePath(f) ==
    CASE f = "A1" -> A1Path [] f = "A2" -> A2Path [] f = "B2" -> B2Path
      [] f = "MA" -> MAPath [] f = "MG" -> MGPath [] f = "MD" -> MDPath
      [] f = "CG" -> CGPath [] f = "MZ" -> MZPath

Source(installed, features, nb, nc) ==
    [installed |-> installed, features |-> features, nb |-> nb, nc |-> nc]

SmallSources ==
    {Source(FALSE, {}, 0, 0)}
    \cup {Source(TRUE, f, 0, 0) : f \in SUBSET Features}
    \cup {Source(TRUE, f \cup {"MD", "XP"}, 0, 0) : f \in (SUBSET {"MA", "MG"}) \ {{}}}

BulkSources ==
    {Source(TRUE, f, b[1], b[2]) :
        f \in {{}, {"A1", "MA", "MG"}},
        b \in {<<MAX_SKILLS + Extra, 1>>, <<MAX_SKILLS, 1>>, <<MAX_SKILLS - 1, 2>>,
               <<MAX_SKILLS - 3, 2>>, <<0, MAX_SKILLS + Extra>>}}

\* What the target directory holds under one name.
Entry(kind, target) == [kind |-> kind, target |-> target]

TargetNames == {"alpha", "gamma", "zeta"}

EntryChoices(name) ==
    CASE name = "alpha" ->
            {Entry("none", ""), Entry("file", ""), Entry("dir", ""), Entry("link", A1Path),
             Entry("link", A2Path), Entry("link", "/gone/alpha")}
      [] name = "gamma" ->
            {Entry("none", ""), Entry("link", MGPath), Entry("link", "/gone/gamma")}
      [] name = "zeta" ->
            {Entry("none", ""), Entry("link", A1Path), Entry("link", "/gone/zeta")}

Target(present, entry) == [present |-> present, entry |-> entry]

NoEntries == [n \in TargetNames |-> Entry("none", "")]

SmallTargets ==
    {Target(FALSE, NoEntries)}
    \cup {Target(TRUE, e) : e \in {g \in [TargetNames -> UNION {EntryChoices(n) : n \in TargetNames}] :
                                     \A n \in TargetNames : g[n] \in EntryChoices(n)}}

BulkTargets ==
    {Target(FALSE, NoEntries),
     Target(TRUE, [NoEntries EXCEPT !["alpha"] = Entry("link", A1Path),
                                    !["zeta"] = Entry("link", "/gone/zeta")])}

SkillDirsOf(src) ==
    {FeaturePath(f) : f \in src.features \ {"XP"}}
    \cup {BulkCachePath(i) : i \in 1..src.nb}
    \cup {BulkMarketPath(i) : i \in 1..src.nc}

InitialFs(src, tgt) ==
    LET skillDirs == SkillDirsOf(src)
        mdFiles == {join(d, "SKILL.md") : d \in skillDirs \ {B2Path}}
        named(kind) == {join(targetDir, n) : n \in {m \in TargetNames : tgt.entry[m].kind = kind}}
        sourceDirs == IF src.installed
                      THEN {claudeDir} \cup Ancestors(claudeDir) \cup skillDirs
                           \cup UNION {Ancestors(d) : d \in skillDirs}
                      ELSE {}
        targetDirs == IF tgt.present
                      THEN {targetDir} \cup Ancestors(targetDir) \cup named("dir")
                      ELSE Ancestors(home) \cup {home}
    IN  [dirs |-> sourceDirs \cup targetDirs,
         files |-> mdFiles \cup named("file"),
         links |-> [q \in named("link") |->
                      tgt.entry[CHOOSE n \in TargetNames : join(targetDir, n) = q].target],
         unreadable |-> IF "XP" \in src.features THEN {marketplacesDir \o "/m2/plugins"}
                        ELSE {},
         failing |-> {},
         order |-> <<"2.0.0", "1.0.0", "SKILL.md", "zeta", "alpha", "beta", "gamma", "delta",
                     "m1", "m2", "mb", "p1", "pb", "p2", "plugins", "skills">>
                   \o [i \in 1..src.nb |-> "b" \o ToString(i)]
                   \o [i \in 1..src.nc |-> "c" \o ToString(i)]]

(***************************************************************************)
(* Specification of a sync pass                                            *)
(***************************************************************************)
Init ==
    /\ pc = "start"
    /\ \E src \in SmallSources \cup BulkSources :
         \E tgt \in (IF src.nb + src.nc > 0 THEN BulkTargets ELSE SmallTargets) :
            fs = InitialFs(src, tgt)
    /\ fs0 = fs
    /\ cacheSkills = <<>> /\ remainingLimit = 0 /\ marketplaceSkills = <<>>
    /\ skillMap = <<>> /\ discovered = <<>> /\ totalFound = 0
    /\ entries = <<>> /\ idx = 1
    /\ cleaned = 0 /\ updated = 0 /\ created = 0
    /\ log = <<>> /\ ops = <<>>
    /\ ExtractIdle
    /\ VersionIdle
    /\ PassIdle
    /\ ManifestIdle
    /\ CleanupIdle
    /\ HostIdle

Next ==
    \/ NotInstalled
    \/ ScanCache
    \/ ScanMarketplaces
    \/ MergeCacheSkill
    \/ EndMergeCache
    \/ MergeMarketplace
    \/ Merge
    \/ ListTarget
    \/ ReconcileEntry
    \/ EndReconcile
    \/ CreateLink
    \/ LogSummary

Spec == Init /\ [][Next]_vars

(***************************************************************************)
(* Path shapes, stated on the segments of a path                           *)
(***************************************************************************)
\* The segments left once the trailing separators are stripped.
RECURSIVE StripEmptyTail(_)
StripEmptyTail(ss) ==
    IF Len(ss) > 0 /\ ss[Len(ss)] = ""
    THEN StripEmptyTail(SubSeq(ss, 1, Len(ss) - 1))
    ELSE ss

CacheShapeAt(t, i) ==
    /\ i + 5 <= Len(t)
    /\ t[i] = "cache" /\ t[i + 1] # "" /\ t[i + 2] # "" /\ t[i + 4] = "skills"

PluginsShapeAt(t, i) ==
    /\ i + 3 <= Len(t)
    /\ t[i] = "marketplaces" /\ t[i + 1] # "" /\ t[i + 2] = "plugins" /\ t[i + 3] # ""

DirectShapeAt(t, i) ==
    /\ i + 3 <= Len(t)
    /\ t[i] = "marketplaces" /\ t[i + 1] # "" /\ t[i + 2] = "skills"

ShapeAt(shape, t, i) ==
    CASE shape = "cache" -> CacheShapeAt(t, i)
      [] shape = "plugins" -> PluginsShapeAt(t, i)
      [] shape = "direct" -> DirectShapeAt(t, i)

HasShape(shape, t) == \E i \in 1..Len(t) : ShapeAt(shape, t, i)

FirstShape(shape, t) ==
    CHOOSE i \in 1..Len(t) :
        ShapeAt(shape, t, i) /\ \A j \in 1..(i - 1) : ~ShapeAt(shape, t, j)

ExpectedPluginName(ss) ==
    LET t == StripEmptyTail(ss)
    IN  IF HasShape("cache", t)
        THEN LET i == FirstShape("cache", t) IN <<t[i + 2] \o "@" \o t[i + 1]>>
        ELSE IF HasShape("plugins", t)
        THEN LET i == FirstShape("plugins", t) IN <<t[i + 3] \o "@" \o t[i + 1]>>
        ELSE IF HasShape("direct", t)
        THEN LET i == FirstShape("direct", t) IN <<t[i + 1] \o "@" \o t[i + 1]>>
        ELSE null

\* C9: extractPluginNameFromPath returns the identifier of the first of the
\* three shapes cache, marketplace-plugins, marketplace-direct-skills that the
\* path (trailing separators stripped, backslashes read as slashes) contains:
\* {p}@{m}, {p}@{m} and {m}@{m} respectively, and null when it contains none.
C9_FirstShapeWins ==
    pc = "extracted" => pluginName = ExpectedPluginName(segs)

\* A path holding both a marketplace-plugins shape and, after it, a cache
\* shape has been classified by its cache shape.
C9_Witness ==
    /\ pc = "extracted"
    /\ segs = <<"marketplaces", "m2", "plugins", "p2">>
                \o <<"cache", "m1", "p1", "v", "skills", "x">>
    /\ sep = "\\"
    /\ pluginName = <<"p1@m1">>

NoSlash(s) == \A k \in 1..Len(s) : Char(s, k) \notin {"/", "\\"}

WellFormedId(r) ==
    \E k \in 2..(Len(r) - 1) :
        /\ Char(r, k) = "@"
        /\ NoSlash(SubSeq(r, 1, k - 1))
        /\ NoSlash(SubSeq(r, k + 1, Len(r)))

\* A shape whose marketplace or plugin segment is empty.
EmptiedShapes ==
    { [t EXCEPT ![i] = ""] : t \in Shapes, i \in {2} } \cup
    { [t EXCEPT ![3] = ""] : t \in {s \in Shapes : s[1] = "cache"} } \cup
    { [t EXCEPT ![4] = ""] : t \in {s \in Shapes : s[3] = "plugins"} }

\* C10: the result of extractPluginNameFromPath is null or a string a@b with a
\* and b non-empty and free of separators, and a path whose marketplace or
\* plugin segment is empty (a double slash) gives null.
C10_NeverMalformed ==
    pc = "extracted" =>
        /\ pluginName = null \/ WellFormedId(pluginName[1])
        /\ (\E pre \in Prefixes, post \in Suffixes, e \in EmptiedShapes :
                segs = pre \o e \o post) => pluginName = null

C10_Witness ==
    /\ pc = "extracted"
    /\ path = "/cache/marketplace//version/skills/skill"
    /\ pluginName = null

(***************************************************************************)
(* Properties of a sync pass                                               *)
(***************************************************************************)
TargetPath(e) == join(targetDir, e)

Names(list) == {list[k].name : k \in 1..Len(list)}

\* The entries of the target directory the reconciliation loop is done with.
Processed ==
    IF pc = "reconcile" THEN {entries[k] : k \in 1..(idx - 1)}
    ELSE IF pc \in {"create", "done"} THEN {entries[k] : k \in 1..Len(entries)}
    ELSE {}

WasLink(e) == isSymbolicLink(fs0, TargetPath(e))
TargetExisted(e) == exists(fs0, TargetPath(e))
Discovered(e) == MapHas(discovered, e)

\* A link without a discovered skill of its name.
Stale(e) == WasLink(e) /\ ~Discovered(e)

\* A link the loop removes: broken, or stale.
Removable(e) == WasLink(e) /\ (~TargetExisted(e) \/ ~Discovered(e))

\* A valid link of a discovered skill that points somewhere else.
Outdated(e) ==
    /\ WasLink(e) /\ TargetExisted(e) /\ Discovered(e)
    /\ fs0.links[TargetPath(e)] # MapGet(discovered, e).path

\* A valid link of a discovered skill that points at the skill's path.
Current(e) ==
    /\ WasLink(e) /\ TargetExisted(e) /\ Discovered(e)
    /\ fs0.links[TargetPath(e)] = MapGet(discovered, e).path

OpsOn(p) == SelectSeq(ops, LAMBDA o : o.path = p)

SummaryLogged == Len(log) > 0 /\ StartsAt(log[Len(log)], 1, "Synced ")

\* The directories on disk that qualify as skills.
QualifyingOnDisk == {d \in fs.dirs : join(d, "SKILL.md") \in fs.files}

\* C1: whatever the disk holds, the cache scan returns at most MAX_SKILLS
\* skills, the marketplace scan at most the remaining MAX_SKILLS -
\* cacheSkills.length (nothing when that is not positive), and the merged map
\* never has more than MAX_SKILLS names.
C1_CapRespected ==
    /\ Len(cacheSkills) <= MAX_SKILLS
    /\ pc \in {"scanned", "cacheMerged", "merged", "reconcile", "create"}
          => remainingLimit = MAX_SKILLS - Len(cacheSkills)
    /\ Len(marketplaceSkills) <= (IF remainingLimit > 0 THEN remainingLimit ELSE 0)
    /\ Len(cacheSkills) + Len(marketplaceSkills) <= MAX_SKILLS
    /\ Len(skillMap) <= MAX_SKILLS
    /\ Len(discovered) <= MAX_SKILLS
    /\ totalFound <= MAX_SKILLS

\* More skills qualify on disk than the cap, and the pass has stopped at it
\* with the marketplace scan cut to the one remaining place.
C1_Witness ==
    /\ pc = "done"
    /\ Cardinality(QualifyingOnDisk) > MAX_SKILLS
    /\ Len(cacheSkills) = MAX_SKILLS - 1
    /\ Len(marketplaceSkills) = 1
    /\ totalFound = MAX_SKILLS

\* C2: after the merge every name of the cache result maps to the cache entry
\* (its path, version and source "cache"), also when the marketplace result
\* has the name, and a marketplace entry is in the map exactly for the names
\* the cache result does not have.
C2_CachePriority ==
    pc \notin {"start", "cacheScanned", "scanned", "cacheMerged"} =>
        /\ MapNames(discovered) = Names(cacheSkills) \cup Names(marketplaceSkills)
        /\ \A k \in 1..Len(cacheSkills) :
              (\A j \in (k + 1)..Len(cacheSkills) : cacheSkills[j].name # cacheSkills[k].name)
                  => MapGet(discovered, cacheSkills[k].name) = cacheSkills[k]
        /\ \A k \in 1..Len(marketplaceSkills) :
              /\ marketplaceSkills[k].name \notin Names(cacheSkills)
              /\ \A j \in 1..(k - 1) : marketplaceSkills[j].name # marketplaceSkills[k].name
              => MapGet(discovered, marketplaceSkills[k].name) = marketplaceSkills[k]
        /\ \A k \in 1..Len(discovered) :
              discovered[k].source = "marketplaces"
                  => discovered[k].name \notin Names(cacheSkills)

\* The skill alpha was found in the cache and in a marketplace, and the map
\* holds the cache entry.
C2_Witness ==
    /\ pc = "merged"
    /\ "alpha" \in Names(cacheSkills) \cap Names(marketplaceSkills)
    /\ MapGet(discovered, "alpha") = SkillInfo("alpha", A2Path, "2.0.0", "cache")

\* C3: once the reconciliation loop is done with a symbolic link whose name is
\* no key of the discovered map, the link is gone, whether or not its target
\* exists, by exactly one unlink and no symlink call, it is counted in cleaned
\* (cleaned counts the removed links), and it stays absent to the end of the
\* pass.
C3_StaleRemoved ==
    /\ \A e \in Processed :
          Stale(e) => /\ ~LExists(fs, TargetPath(e))
                      /\ OpsOn(TargetPath(e)) = <<FsOp("unlink", TargetPath(e), "", TRUE)>>
    /\ cleaned = Cardinality({e \in Processed : Removable(e)})

\* A stale link whose target exists has been removed, and the pass is over.
C3_Witness ==
    /\ pc = "done"
    /\ Stale("zeta") /\ TargetExisted("zeta")
    /\ "zeta" \in Processed
    /\ ~LExists(fs, TargetPath("zeta"))
    /\ cleaned >= 1

\* C4: once the loop is done with a valid link of a discovered skill whose
\* stored target differs from the skill's path, the link points at the skill's
\* path, by one unlink followed by one symlink; it is counted in updated
\* (updated counts these links), not in cleaned (which counts the removed
\* links) and not in created (which counts the links made for other names),
\* and its name has left the map.
C4_OutdatedRelinked ==
    /\ \A e \in Processed :
          Outdated(e) =>
              /\ isSymbolicLink(fs, TargetPath(e))
              /\ fs.links[TargetPath(e)] = MapGet(discovered, e).path
              /\ OpsOn(TargetPath(e)) =
                    <<FsOp("unlink", TargetPath(e), "", TRUE),
                      FsOp("symlink", TargetPath(e), MapGet(discovered, e).path, TRUE)>>
              /\ ~MapHas(skillMap, e)
    /\ updated = Cardinality({e \in Processed : Outdated(e)})
    /\ cleaned = Cardinality({e \in Processed : Removable(e)})
    /\ created = Cardinality({k \in 1..Len(ops) :
                                /\ ops[k].op = "symlink" /\ ops[k].ok
                                /\ \A e \in Processed :
                                      Outdated(e) => ops[k].path # TargetPath(e)})

\* The link alpha pointed at version 1.0.0 while 2.0.0 was discovered: it now
\* points at 2.0.0 and the pass reports one update.
C4_Witness ==
    /\ pc = "done"
    /\ fs0.links = (TargetPath("alpha") :> A1Path)
    /\ Outdated("alpha")
    /\ fs.links = (TargetPath("alpha") :> A2Path)
    /\ updated = 1 /\ created = 0 /\ cleaned = 0

\* Every discovered skill has a valid link at its path and the target
\* directory has no other symbolic link.
AllCurrent ==
    /\ DOMAIN fs0.links = {TargetPath(n) : n \in MapNames(discovered)}
    /\ \A n \in MapNames(discovered) : Current(n)

\* C5: a valid link of a discovered skill that points at the skill's path is
\* left as it is, without any unlink or symlink call on it; when every
\* discovered skill has such a link and there is no other symbolic link, the
\* pass changes nothing and reports 0 created, 0 updated, 0 cleaned.
C5_CurrentUntouched ==
    /\ \A e \in Processed :
          Current(e) => /\ isSymbolicLink(fs, TargetPath(e))
                        /\ fs.links[TargetPath(e)] = fs0.links[TargetPath(e)]
                        /\ OpsOn(TargetPath(e)) = <<>>
    /\ (pc = "done" /\ discovered # <<>> /\ AllCurrent) =>
          /\ created = 0 /\ updated = 0 /\ cleaned = 0
          /\ fs = fs0
          /\ ops = <<>>
          /\ log = <<SummaryMessage(totalFound, 0, 0, 0)>>

\* Two skills were discovered, each with its link in place: nothing was done.
C5_Witness ==
    /\ pc = "done"
    /\ Cardinality(MapNames(discovered)) = 2
    /\ AllCurrent
    /\ log = <<"Synced 2 skills (limit: 100): 0 created, 0 updated, 0 cleaned">>

\* C6: no regular file and no directory is removed, turned into a link or the
\* object of a successful unlink or symlink call, also when a discovered skill
\* has its name.
C6_NonLinksUntouched ==
    /\ fs0.files \subseteq fs.files
    /\ fs0.dirs \subseteq fs.dirs
    /\ DOMAIN fs.links \cap (fs0.files \cup fs0.dirs) = {}
    /\ \A k \in 1..Len(ops) :
          ops[k].path \in fs0.files \cup fs0.dirs => ~ops[k].ok

\* A regular file named alpha stood in the target directory while a skill
\* alpha was discovered: the file is still there after the pass.
C6_Witness ==
    /\ pc = "done"
    /\ SummaryLogged
    /\ TargetPath("alpha") \in fs0.files
    /\ Discovered("alpha")
    /\ TargetPath("alpha") \in fs.files
    /\ OpsOn(TargetPath("alpha")) =
          <<FsOp("symlink", TargetPath("alpha"), MapGet(discovered, "alpha").path, FALSE)>>

(***************************************************************************)
(* cleanupOrphanedSymlinks                                                 *)
(***************************************************************************)
Letters ==
    {"a", "b", "c", "d", "e", "f", "g", "h", "i", "j", "k", "l", "m",
     "n", "o", "p", "q", "r", "s", "t", "u", "v", "w", "x", "y", "z",
     "A", "B", "C", "D", "E", "F", "G", "H", "I", "J", "K", "L", "M",
     "N", "O", "P", "Q", "R", "S", "T", "U", "V", "W", "X", "Y", "Z"}

\* rawTargetPath.match(/^[A-Za-z]:/)
HasDriveLetter(s) == Len(s) >= 2 /\ Char(s, 1) \in Letters /\ Char(s, 2) = ":"

\* s.split("/") from position i.
RECURSIVE SplitSlash(_, _)
SplitSlash(s, i) ==
    LET j == SegEnd(s, i)
    IN  IF j > Len(s) THEN <<SubSeq(s, i, Len(s))>>
        ELSE <<SubSeq(s, i, j - 1)>> \o SplitSlash(s, j + 1)

\* The segments path.resolve keeps: "" and "." are dropped, ".." takes the
\* segment before it away (nothing at the root).
RECURSIVE NormalizeSegments(_, _, _)
NormalizeSegments(ss, k, kept) ==
    IF k > Len(ss) THEN kept
    ELSE NormalizeSegments(ss, k + 1,
             IF ss[k] \in {"", "."} THEN kept
             ELSE IF ss[k] = ".."
                  THEN (IF Len(kept) = 0 THEN kept ELSE SubSeq(kept, 1, Len(kept) - 1))
             ELSE Append(kept, ss[k]))

RECURSIVE JoinSegments(_, _)
JoinSegments(ss, k) ==
    IF k > Len(ss) THEN "" ELSE "/" \o ss[k] \o JoinSegments(ss, k + 1)

\* Mutant of resolve: the two paths are put together without collapsing the
\* "." and ".." segments.
resolve_NoCollapse(from, to) ==
    IF StartsAt(to, 1, "/") THEN to ELSE from \o "/" \o to

\* path.resolve(from, to) on POSIX, for an absolute `from`.
resolve(from, to) ==
    LET full == IF StartsAt(to, 1, "/") THEN to ELSE from \o "/" \o to
        kept == NormalizeSegments(SplitSlash(full, 1), 1, <<>>)
    IN  IF Len(kept) = 0 THEN "/" ELSE JoinSegments(kept, 1)

\* rawTargetPath.startsWith("/") || rawTargetPath.match(/^[A-Za-z]:/)
\*     ? rawTargetPath : resolve(dirname(entryPath), rawTargetPath)
NormalizedTarget(entryPath, rawTargetPath) ==
    IF StartsAt(rawTargetPath, 1, "/") \/ HasDriveLetter(rawTargetPath)
    THEN rawTargetPath
    ELSE resolve(dirname(entryPath), rawTargetPath)

\* Mutant of IsOrphan: a link whose target names no plugin is kept.
IsOrphan_NamedOnly(name, plugins) == name # null /\ name[1] \notin plugins

\* pluginName === null || !installedPlugins.has(pluginName)
IsOrphan(name, plugins) == name = null \/ name[1] \notin plugins

\* The filesystem, the counter and the calls made while the loop runs.
Cleaning(F, n, calls) == [fs |-> F, removed |-> n, ops |-> calls]

\* Mutant of CleanupEntryStep: the isSymbolicLink test is missing and an entry
\* that is no link has no target to name a plugin.
CleanupEntryStep_NoLinkTest(R, dir, plugins, entry) ==
    LET entryPath == join(dir, entry)
        name == IF isSymbolicLink(R.fs, entryPath)
                THEN extractPluginNameFromPath(
                         NormalizedTarget(entryPath, R.fs.links[entryPath]))
                ELSE null
        u == FsUnlink(R.fs, entryPath)
    IN  IF ~LExists(R.fs, entryPath) \/ Fails(R.fs, "lstat", entryPath) THEN R
        ELSE IF Fails(R.fs, "readlink", entryPath) THEN R
        ELSE IF ~IsOrphan(name, plugins) THEN R
        ELSE IF ~u.ok THEN [R EXCEPT !.ops = Append(@, FsOp("unlink", entryPath, "", FALSE))]
        ELSE Cleaning(u.fs, R.removed + 1, Append(R.ops, FsOp("unlink", entryPath, "", TRUE)))

\* Mutant of CleanupEntryStep: removed++ stands before the unlink, so a link
\* whose unlink throws is counted.
CleanupEntryStep_CountsFirst(R, dir, plugins, entry) ==
    LET entryPath == join(dir, entry)
        rawTargetPath == R.fs.links[entryPath]
        name == extractPluginNameFromPath(NormalizedTarget(entryPath, rawTargetPath))
        u == FsUnlink(R.fs, entryPath)
    IN  IF ~LExists(R.fs, entryPath) \/ Fails(R.fs, "lstat", entryPath) THEN R
        ELSE IF ~isSymbolicLink(R.fs, entryPath) THEN R
        ELSE IF Fails(R.fs, "readlink", entryPath) THEN R
        ELSE IF ~IsOrphan(name, plugins) THEN R
        ELSE Cleaning(u.fs, R.removed + 1, Append(R.ops, FsOp("unlink", entryPath, "", u.ok)))

\* The body of `for (const entry of entries)`: a call that throws ends the
\* iteration.
CleanupEntryStep(R, dir, plugins, entry) ==
    LET entryPath == join(dir, entry)
        rawTargetPath == R.fs.links[entryPath]
        name == extractPluginNameFromPath(NormalizedTarget(entryPath, rawTargetPath))
        u == FsUnlink(R.fs, entryPath)
    IN  IF ~LExists(R.fs, entryPath) \/ Fails(R.fs, "lstat", entryPath) THEN R
        ELSE IF ~isSymbolicLink(R.fs, entryPath) THEN R
        ELSE IF Fails(R.fs, "readlink", entryPath) THEN R
        ELSE IF ~IsOrphan(name, plugins) THEN R
        ELSE IF ~u.ok THEN [R EXCEPT !.ops = Append(@, FsOp("unlink", entryPath, "", FALSE))]
        ELSE Cleaning(u.fs, R.removed + 1, Append(R.ops, FsOp("unlink", entryPath, "", TRUE)))

\* Mutant of CleanupList: without the outer catch a listing that throws leaves
\* the function by the exception.
CleanupList_Throws ==
    /\ pc = "cleanup"
    /\ LET listing == readdir(fs, targetDir)
       IN  IF Len(listing) = 0
           THEN /\ pc' = "thrown"
                /\ UNCHANGED <<entries, idx>>
           ELSE /\ entries' = listing[1]
                /\ idx' = 1
                /\ pc' = "cleanupLoop"
    /\ UNCHANGED <<fs, fs0, cacheSkills, remainingLimit, marketplaceSkills, skillMap,
                   discovered, totalFound, cleaned, updated, created, log, ops>>
    /\ UNCHANGED <<extractVars, manifestVars, cleanupVars, hostVars, versionVars, passVars>>

\* const entries = await fs.readdir(targetDir); a listing that throws makes
\* the function return 0.
CleanupList ==
    /\ pc = "cleanup"
    /\ LET listing == readdir(fs, targetDir)
       IN  IF Len(listing) = 0
           THEN /\ removed' = 0
                /\ pc' = "cleanupDone"
                /\ UNCHANGED <<entries, idx>>
           ELSE /\ entries' = listing[1]
                /\ idx' = 1
                /\ pc' = "cleanupLoop"
                /\ UNCHANGED removed
    /\ UNCHANGED <<fs, fs0, cacheSkills, remainingLimit, marketplaceSkills, skillMap,
                   discovered, totalFound, cleaned, updated, created, log, ops>>
    /\ UNCHANGED <<extractVars, manifestVars, hostVars, versionVars, passVars>>

\* One iteration of the loop over the entries.
CleanupEntry ==
    /\ pc = "cleanupLoop"
    /\ idx <= Len(entries)
    /\ LET R == CleanupEntryStep(Cleaning(fs, removed, ops), targetDir,
                                 installedPlugins[1], entries[idx])
       IN  /\ fs' = R.fs
           /\ removed' = R.removed
           /\ ops' = R.ops
    /\ idx' = idx + 1
    /\ UNCHANGED <<pc, fs0, cacheSkills, remainingLimit, marketplaceSkills, skillMap,
                   discovered, totalFound, entries, cleaned, updated, created, log>>
    /\ UNCHANGED <<extractVars, manifestVars, hostVars, versionVars, passVars>>

\* return removed
CleanupReturn ==
    /\ pc = "cleanupLoop"
    /\ idx > Len(entries)
    /\ pc' = "cleanupDone"
    /\ UNCHANGED <<syncVars, extractVars, manifestVars, cleanupVars, hostVars, versionVars, passVars>>

(***************************************************************************)
(* Cleanup inputs: a target directory of MaxEntries names, each absent, a  *)
(* regular file, a directory or a link with one of the stored targets, and *)
(* every set of installed plugin keys.                                     *)
(***************************************************************************)
MaxEntries == 2

CleanupNames == {"e" \o ToString(i) : i \in 1..MaxEntries}

PluginIds == {"p1@m1", "p2@m2", "m2@m2"}

CachePath == "/c/cache/m1/p1/v/skills/a"
PluginPath == "/c/marketplaces/m2/plugins/p2"
DirectPath == "/c/marketplaces/m2/skills/d"
RelativeCachePath == "../../../c/cache/m1/p1/v/skills/a"
RelativePluginPath == "../.././../marketplaces/m2/plugins/p2/skills/a/"
TraversalCachePath == "../../../c/cache/m1/zz/../p1/v/skills/a"
DriveCachePath == "C:\\cache\\m1\\p1\\v\\skills\\a"
EscapingCachePath == "/c/cache/m1/p1/v/skills/../../../../x"

\* The stored targets, and the plugin key each one stands for.
StoredTargets ==
    {CachePath, PluginPath, DirectPath, "/gone/a", RelativeCachePath, "../x",
     DriveCachePath, RelativePluginPath, TraversalCachePath, EscapingCachePath}

KeyOf(target) ==
    CASE target \in {CachePath, RelativeCachePath, DriveCachePath, TraversalCachePath,
                      EscapingCachePath}
            -> <<"p1@m1">>
      [] target \in {PluginPath, RelativePluginPath} -> <<"p2@m2">>
      [] target = DirectPath -> <<"m2@m2">>
      [] OTHER -> null

CleanupChoices ==
    {Entry("none", ""), Entry("file", ""), Entry("dir", "")}
    \cup {Entry("link", t) : t \in StoredTargets}

\* What a target directory with a rejected call holds under one name.
FaultChoices ==
    {Entry("none", ""), Entry("file", ""), Entry("link", CachePath),
     Entry("link", PluginPath), Entry("link", "/gone/a")}

\* A target directory: listed, missing or unreadable, what it holds under
\* each name, and the per-entry calls that are rejected.
Audit(present, entry, failing) == [present |-> present, entry |-> entry, failing |-> failing]

CleanupTargets ==
    {Audit(pr, e, {}) : pr \in {"listed", "missing", "unreadable"},
                        e \in [CleanupNames -> CleanupChoices]}
    \cup {Audit("listed", e, {<<call, join(targetDir, n)>>}) :
              e \in [CleanupNames -> FaultChoices],
              call \in {"lstat", "readlink", "unlink"},
              n \in CleanupNames}

CleanupFs(tgt) ==
    LET named(kind) == {join(targetDir, n) : n \in {m \in CleanupNames : tgt.entry[m].kind = kind}}
    IN  IF tgt.present = "missing"
        THEN [EmptyFs EXCEPT !.dirs = Ancestors(targetDir)]
        ELSE [dirs |-> {targetDir} \cup Ancestors(targetDir) \cup named("dir"),
              files |-> named("file"),
              links |-> [q \in named("link") |->
                           tgt.entry[CHOOSE n \in CleanupNames : join(targetDir, n) = q].target],
              unreadable |-> IF tgt.present = "unreadable" THEN {targetDir} ELSE {},
              failing |-> tgt.failing,
              order |-> [i \in 1..MaxEntries |-> "e" \o ToString(i)]]

InitCleanup ==
    /\ pc = "cleanup"
    /\ \E tgt \in CleanupTargets : fs = CleanupFs(tgt)
    /\ fs0 = fs
    /\ installedPlugins \in {<<S>> : S \in SUBSET PluginIds}
    /\ removed = 0
    /\ cacheSkills = <<>> /\ remainingLimit = 0 /\ marketplaceSkills = <<>>
    /\ skillMap = <<>> /\ discovered = <<>> /\ totalFound = 0
    /\ entries = <<>> /\ idx = 1
    /\ cleaned = 0 /\ updated = 0 /\ created = 0
    /\ log = <<>> /\ ops = <<>>
    /\ manifest = <<>> /\ content = ""
    /\ ExtractIdle
    /\ VersionIdle
    /\ PassIdle
    /\ HostIdle

NextCleanup ==
    \/ CleanupList
    \/ CleanupEntry
    \/ CleanupReturn

SpecCleanup == InitCleanup /\ [][NextCleanup]_vars

\* The entries the cleanup loop is done with.
CleanupProcessed ==
    IF pc = "cleanupLoop" THEN {entries[k] : k \in 1..(idx - 1)}
    ELSE IF pc = "cleanupDone" THEN {entries[k] : k \in 1..Len(entries)}
    ELSE {}

\* The plugin key the link at entry e was classified to when the call began.
ClassifiedAs(e) ==
    extractPluginNameFromPath(NormalizedTarget(TargetPath(e), fs0.links[TargetPath(e)]))

Unlinked(e) ==
    /\ LExists(fs0, TargetPath(e))
    /\ ~LExists(fs, TargetPath(e))
    /\ OpsOn(TargetPath(e)) = <<FsOp("unlink", TargetPath(e), "", TRUE)>>

Untouched(e) ==
    /\ LExists(fs, TargetPath(e))
    /\ TargetPath(e) \in fs0.files <=> TargetPath(e) \in fs.files
    /\ TargetPath(e) \in fs0.dirs <=> TargetPath(e) \in fs.dirs
    /\ WasLink(e) => /\ isSymbolicLink(fs, TargetPath(e))
                     /\ fs.links[TargetPath(e)] = fs0.links[TargetPath(e)]
    /\ OpsOn(TargetPath(e)) = <<>>

\* The key the stored target of the link at entry e stands for.
KeyAt(e) == KeyOf(fs0.links[TargetPath(e)])

\* C7: with every per-entry call succeeding, an entry the loop is done with
\* has been unlinked exactly when it is a symbolic link whose classified
\* plugin key is null or no member of installedPlugins, and is as it was
\* otherwise; removed is the number of entries unlinked and is the value
\* returned; a link classified to an installed key survives; with the empty
\* set no symbolic link is left.  A link is classified to the key its stored
\* target stands for.
C7_OrphansRemoved ==
    (pc \in {"cleanupLoop", "cleanupDone"} /\ fs0.failing = {}) =>
        /\ \A e \in CleanupProcessed :
              /\ WasLink(e) => ClassifiedAs(e) = KeyAt(e)
              /\ IF WasLink(e) /\ (KeyAt(e) = null \/ KeyAt(e)[1] \notin installedPlugins[1])
                 THEN Unlinked(e)
                 ELSE Untouched(e)
        /\ removed = Cardinality({e \in CleanupProcessed : Unlinked(e)})
        /\ \A e \in CleanupProcessed :
              (WasLink(e) /\ KeyAt(e) # null /\ KeyAt(e)[1] \in installedPlugins[1])
                  => isSymbolicLink(fs, TargetPath(e))
        /\ installedPlugins[1] = {} =>
              \A e \in CleanupProcessed : ~isSymbolicLink(fs, TargetPath(e))
        /\ Len(ops) = removed

\* Of two links, the one stored with a relative path into the cache of the
\* installed plugin p1@m1 survived, the one of the uninstalled p2@m2 was
\* unlinked, and 1 is returned.
C7_Witness ==
    /\ pc = "cleanupDone"
    /\ installedPlugins = <<{"p1@m1"}>>
    /\ fs0.links = (TargetPath("e1") :> RelativeCachePath) @@ (TargetPath("e2") :> PluginPath)
    /\ fs.links = (TargetPath("e1") :> RelativeCachePath)
    /\ removed = 1

\* A stored target that is neither absolute nor led by a drive letter.
RelativeTargets == {RelativeCachePath, RelativePluginPath, "../x", TraversalCachePath}

\* The stored relative targets, read from the directory of the link.
ResolvedText(target) ==
    CASE target \in {RelativeCachePath, TraversalCachePath}
            -> home \o "/c/cache/m1/p1/v/skills/a"
      [] target = RelativePluginPath -> home \o "/marketplaces/m2/plugins/p2/skills/a"
      [] target = "../x" -> home \o "/.config/opencode/x"

\* C11: a link whose stored target is relative is classified from that target
\* resolved against the directory of the link, with the ".." segments
\* collapsed; when the resolved path stands for an installed plugin the link
\* is kept as it was and is not counted in removed.
C11_RelativeResolved ==
    pc \in {"cleanupLoop", "cleanupDone"} =>
        /\ \A e \in CleanupProcessed :
              (WasLink(e) /\ fs0.links[TargetPath(e)] \in RelativeTargets) =>
                  /\ NormalizedTarget(TargetPath(e), fs0.links[TargetPath(e)])
                        = ResolvedText(fs0.links[TargetPath(e)])
                  /\ (KeyAt(e) # null /\ KeyAt(e)[1] \in installedPlugins[1])
                        => Untouched(e)
        /\ removed = Cardinality({e \in CleanupProcessed : Unlinked(e)})

\* A link stored as ../../../c/cache/m1/zz/../p1/v/skills/a was kept for the
\* installed plugin p1@m1 and nothing was removed.
C11_Witness ==
    /\ pc = "cleanupDone"
    /\ installedPlugins = <<{"p1@m1"}>>
    /\ fs0.links = (TargetPath("e1") :> TraversalCachePath)
    /\ fs.links = fs0.links
    /\ removed = 0

\* The target directory cannot be listed: it is missing or not readable.
ListingFails == targetDir \notin fs0.dirs \/ targetDir \in fs0.unreadable

\* C12: when the listing of the target directory fails the call returns 0,
\* the loop is not entered (no entry is looked at), no unlink is made and the
\* filesystem is as it was.
C12_ListingFailure ==
    (ListingFails /\ pc # "cleanup") =>
        /\ pc = "cleanupDone"
        /\ removed = 0
        /\ entries = <<>> /\ idx = 1
        /\ ops = <<>>
        /\ fs = fs0

\* An unreadable directory with a link no installed plugin stands for: the
\* call is over, the link is still there and 0 is returned.
C12_Witness ==
    /\ pc = "cleanupDone"
    /\ targetDir \in fs0.unreadable
    /\ installedPlugins = <<{}>>
    /\ fs0.links = (TargetPath("e1") :> "/gone/a")
    /\ fs.links = fs0.links
    /\ removed = 0

\* The link at entry e stands for no plugin or for one that is not installed.
OrphanAt(e) == WasLink(e) /\ (KeyAt(e) = null \/ KeyAt(e)[1] \notin installedPlugins[1])

\* A call the loop makes for entry e is rejected: lstat, readlink for a link,
\* unlink for a link it decides to remove.
FaultHit(e) ==
    \/ Fails(fs0, "lstat", TargetPath(e))
    \/ WasLink(e) /\ Fails(fs0, "readlink", TargetPath(e))
    \/ OrphanAt(e) /\ Fails(fs0, "unlink", TargetPath(e))

\* Entry e is what it was, and no unlink of it succeeded.
Skipped(e) ==
    /\ TargetPath(e) \in fs0.files <=> TargetPath(e) \in fs.files
    /\ TargetPath(e) \in fs0.dirs <=> TargetPath(e) \in fs.dirs
    /\ WasLink(e) <=> isSymbolicLink(fs, TargetPath(e))
    /\ WasLink(e) => fs.links[TargetPath(e)] = fs0.links[TargetPath(e)]
    /\ \A k \in 1..Len(ops) : ops[k].path = TargetPath(e) => ~ops[k].ok

\* C13: an entry for which lstat, readlink or unlink is rejected is left as it
\* was and is not counted; every other entry of the listing has the outcome it
\* has when nothing is rejected (unlinked exactly when it is a link that stands
\* for no installed plugin); removed counts the unlinked entries; the loop goes
\* through the whole listing and the call ends by its return.
C13_EntryFailureSkipped ==
    /\ pc \in {"cleanup", "cleanupLoop", "cleanupDone"}
    /\ pc \in {"cleanupLoop", "cleanupDone"} =>
          /\ \A e \in CleanupProcessed :
                IF FaultHit(e) THEN Skipped(e)
                ELSE IF OrphanAt(e) THEN Unlinked(e)
                ELSE Untouched(e)
          /\ removed = Cardinality({e \in CleanupProcessed : Unlinked(e)})
    /\ (pc = "cleanupDone" /\ ~ListingFails) =>
          CleanupProcessed = {n \in CleanupNames : LExists(fs0, TargetPath(n))}

\* readlink was rejected for the first of two links that stand for no
\* installed plugin: the first is still there, the second was unlinked and 1
\* is returned.
C13_Witness ==
    /\ pc = "cleanupDone"
    /\ fs0.failing = {<<"readlink", TargetPath("e1")>>}
    /\ installedPlugins = <<{"p1@m1"}>>
    /\ fs0.links = (TargetPath("e1") :> "/gone/a") @@ (TargetPath("e2") :> PluginPath)
    /\ fs.links = (TargetPath("e1") :> "/gone/a")
    /\ removed = 1

\* C14: the regular files and the directories of the target directory are the
\* same after the call as before, for every installed set; no unlink is
\* called on one, and removed counts links only.
C14_NonLinksKept ==
    pc \in {"cleanup", "cleanupLoop", "cleanupDone"} =>
        /\ fs.files = fs0.files
        /\ fs.dirs = fs0.dirs
        /\ DOMAIN fs.links \subseteq DOMAIN fs0.links
        /\ \A k \in 1..Len(ops) : ops[k].path \in DOMAIN fs0.links
        /\ removed = Cardinality(DOMAIN fs0.links \ DOMAIN fs.links)

\* With nothing installed, a regular file and a link: the link was unlinked,
\* the file is still there and 1 is returned.
C14_Witness ==
    /\ pc = "cleanupDone"
    /\ installedPlugins = <<{}>>
    /\ fs0.files = {TargetPath("e1")}
    /\ fs0.links = (TargetPath("e2") :> CachePath)
    /\ fs.files = {TargetPath("e1")}
    /\ DOMAIN fs.links = {}
    /\ removed = 1

(***************************************************************************)
(* claudeSkillSync: the entry point starts the pass, attaches its catch    *)
(* and returns; the pass goes on after its first await.                    *)
(***************************************************************************)
\* syncSkills(client) up to its first await: homedir() and the joins stand
\* before the try block, so a throwing homedir() rejects the promise.
Call ==
    /\ pc = "called"
    /\ pc' = IF env.homedir = "throws" THEN "rejected" ELSE "start"
    /\ UNCHANGED <<syncVars, extractVars, manifestVars, cleanupVars, hostVars, versionVars, passVars>>

\* return {}
EntryReturn ==
    /\ pc \in {"start", "rejected"}
    /\ hooks = null
    /\ hooks' = <<{}>>
    /\ UNCHANGED <<pc, syncVars, extractVars, manifestVars, cleanupVars,
                   env, console, hostError, versionVars, passVars>>

\* Mutant of BackgroundCatch: without the .catch the rejection reaches the
\* host.
BackgroundCatch_Unhandled ==
    /\ pc = "rejected"
    /\ hooks # null
    /\ hostError' = TRUE
    /\ pc' = "done"
    /\ UNCHANGED <<syncVars, extractVars, manifestVars, cleanupVars, env, hooks, console, versionVars, passVars>>

\* .catch(err => console.error("[claude-skill-sync] Background sync error:", err))
BackgroundCatch ==
    /\ pc = "rejected"
    /\ hooks # null
    /\ console' = Append(console, "[claude-skill-sync] Background sync error:")
    /\ pc' = "done"
    /\ UNCHANGED <<syncVars, extractVars, manifestVars, cleanupVars, env, hooks, hostError, versionVars, passVars>>

\* The trees the entry point is started on: Claude Code absent, without
\* skills, or with skills; the target directory absent or with three links;
\* and, besides, unreadable or impossible to create.
PluginSources ==
    {Source(FALSE, {}, 0, 0), Source(TRUE, {}, 0, 0),
     Source(TRUE, {"A1", "A2", "MA", "MG"}, 0, 0)}

PluginTargets ==
    {Target(FALSE, NoEntries),
     Target(TRUE, [NoEntries EXCEPT !["alpha"] = Entry("link", A1Path),
                                    !["gamma"] = Entry("link", "/gone/gamma"),
                                    !["zeta"] = Entry("link", A1Path)])}

PluginFs(src, tgt, hazard) ==
    CASE hazard = "none" -> InitialFs(src, tgt)
      [] hazard = "unreadable" -> [InitialFs(src, tgt) EXCEPT !.unreadable = @ \cup {targetDir}]
      [] hazard = "blocked" -> [InitialFs(src, tgt) EXCEPT !.files = @ \cup {join(home, ".config")}]

InitPlugin ==
    /\ pc = "called"
    /\ \E src \in PluginSources, tgt \in PluginTargets :
          \E hazard \in (IF tgt.present THEN {"none", "unreadable"} ELSE {"none", "blocked"}) :
             fs = PluginFs(src, tgt, hazard)
    /\ fs0 = fs
    /\ env \in [homedir : {"ok", "throws"}, log : {"ok", "throws"}]
    /\ hooks = null
    /\ console = <<>>
    /\ hostError = FALSE
    /\ cacheSkills = <<>> /\ remainingLimit = 0 /\ marketplaceSkills = <<>>
    /\ skillMap = <<>> /\ discovered = <<>> /\ totalFound = 0
    /\ entries = <<>> /\ idx = 1
    /\ cleaned = 0 /\ updated = 0 /\ created = 0
    /\ log = <<>> /\ ops = <<>>
    /\ ExtractIdle
    /\ VersionIdle
    /\ PassIdle
    /\ ManifestIdle
    /\ CleanupIdle

NextPlugin ==
    \/ Call
    \/ EntryReturn
    \/ BackgroundCatch
    \/ NotInstalled
    \/ ScanCache
    \/ ScanMarketplaces
    \/ MergeCacheSkill
    \/ EndMergeCache
    \/ MergeMarketplace
    \/ Merge
    \/ ListTarget
    \/ ReconcileEntry
    \/ EndReconcile
    \/ CreateLink
    \/ LogSummary

SpecPlugin == InitPlugin /\ [][NextPlugin]_vars

\* C15: the entry point resolves with its empty hooks object while the pass
\* is still at its first await, before the pass has listed, logged or changed
\* anything; no failure reaches the host: a throwing homedir() ends in the one
\* line of the entry point's catch, a throwing log sink or a rejected mkdir or
\* listing of the target directory in the one line of the pass's own catch,
\* and a pass that ends without failure has given exactly one message to the
\* log.
C15_DetachedAndContained ==
    /\ hostError = FALSE
    /\ hooks \in {null, <<{}>>}
    /\ pc \notin {"called", "start", "rejected"} => hooks = <<{}>>
    /\ hooks = null => /\ log = <<>> /\ console = <<>> /\ ops = <<>>
                       /\ fs = fs0 /\ cacheSkills = <<>>
    /\ pc = "done" =>
          /\ Len(log) + Len(console) = 1
          /\ env.homedir = "throws" =>
                console = <<"[claude-skill-sync] Background sync error:">>
          /\ (env.homedir = "ok" /\ env.log = "throws") =>
                console = <<"[claude-skill-sync] Sync failed:">>

\* The hooks were returned, the pass then made its links, the log sink threw
\* on the summary, and the failure ended in the pass's catch.
C15_Witness ==
    /\ pc = "done"
    /\ hooks = <<{}>>
    /\ env = [homedir |-> "ok", log |-> "throws"]
    /\ \E k \in 1..Len(ops) : ops[k].op = "symlink" /\ ops[k].ok
    /\ log = <<>>
    /\ console = <<"[claude-skill-sync] Sync failed:">>
    /\ hostError = FALSE

(***************************************************************************)
(* The two scans on trees with a failing branch                            *)
(***************************************************************************)
\* The tree the hazards are applied to: in the cache two versions of m1/p1,
\* (the newer one with a directory beta that has no SKILL.md), the plugins
\* m1/pb and m2/p2; in the marketplaces the plugins pb and p2 of
\* m2, the flat skill delta of m2 and the flat skill c1 of mb.
ScanSource == Source(TRUE, {"A1", "A2", "B2", "MA", "MG", "MD", "CG", "MZ"}, 1, 1)

P1Path == cacheDir \o "/m1/p1"

Below(p, q) == q = p \/ StartsAt(q, 1, p \o "/")

Hazard(kind, p) == [kind |-> kind, path |-> p]

\* What a scan can meet at one path: "unlistable" is a directory stat accepts
\* and readdir rejects (no permission, or removed between the two calls);
\* "vanished" is an entry its parent's listing names and stat and access
\* reject (removed after the listing, or a dangling link); "absent" is a
\* path nothing names; "file" is a regular file where a directory is looked
\* for; "version" is one more version directory of the cache plugin m1/p1
\* with the skill beta, listed after the others, "versionFirst" the same
\* listed before them, "bareVersion" one without a skills directory;
\* "cachePlugin", "cacheMarketplace", "nestedPlugin" and "flatMarketplace"
\* are one more plugin or marketplace directory of the given name, with the
\* skill eta.
ApplyHazard(F, h) ==
    LET dirsLeft == {q \in F.dirs : ~Below(h.path, q)}
        WithListed(order, n) ==
            IF \E k \in DOMAIN order : order[k] = n THEN order ELSE Append(order, n)
        WithSkill(skillDir) ==
            [F EXCEPT !.dirs = @ \cup {skillDir} \cup Ancestors(skillDir),
                      !.files = @ \cup {join(skillDir, "SKILL.md")},
                      !.order = WithListed(WithListed(@, h.path), "eta")]
        filesLeft == {q \in F.files : ~Below(h.path, q)}
        versionDir == join(P1Path, h.path)
        skillPath == join(join(versionDir, "skills"), "beta")
        WithVersion == [F EXCEPT !.dirs = @ \cup {versionDir, dirname(skillPath), skillPath},
                                 !.files = @ \cup {join(skillPath, "SKILL.md")}]
    IN  CASE h.kind = "none" -> F
          [] h.kind = "version" -> [WithVersion EXCEPT !.order = Append(@, h.path)]
          [] h.kind = "versionFirst" -> [WithVersion EXCEPT !.order = <<h.path>> \o @]
          [] h.kind = "bareVersion" ->
                [F EXCEPT !.dirs = @ \cup {versionDir}, !.order = Append(@, h.path)]
          [] h.kind = "cachePlugin" ->
                WithSkill(cacheDir \o "/m1/" \o h.path \o "/1.0.0/skills/eta")
          [] h.kind = "cacheMarketplace" ->
                WithSkill(cacheDir \o "/" \o h.path \o "/p1/1.0.0/skills/eta")
          [] h.kind = "nestedPlugin" ->
                WithSkill(marketplacesDir \o "/m2/plugins/" \o h.path \o "/skills/eta")
          [] h.kind = "flatMarketplace" ->
                WithSkill(marketplacesDir \o "/" \o h.path \o "/skills/eta")
          [] h.kind = "unlistable" -> [F EXCEPT !.unreadable = @ \cup {h.path}]
          [] h.kind = "absent" -> [F EXCEPT !.dirs = dirsLeft, !.files = filesLeft]
          [] h.kind = "file" ->
                [F EXCEPT !.dirs = dirsLeft, !.files = filesLeft \cup {h.path}]
          [] h.kind = "vanished" ->
                [F EXCEPT !.dirs = dirsLeft, !.files = filesLeft,
                          !.links = [q \in DOMAIN @ \cup {h.path} |->
                                        IF q = h.path THEN "/gone" ELSE @[q]]]

\* Directory names that are words of the layout, and one with a backslash
\* in it (a legal file name on POSIX).
LayoutNames == {"cache", "skills", "plugins", "marketplaces", "p\\x"}

\* One hazard at every level of the two trees.
Hazards ==
    {Hazard("none", ""), Hazard("absent", claudeDir)}
    \cup {Hazard(k, q) : k \in {"unlistable", "absent"}, q \in {cacheDir, marketplacesDir}}
    \cup {Hazard(k, q) :
            k \in {"unlistable", "vanished", "file"},
            q \in {cacheDir \o "/m1", cacheDir \o "/m1/p1",
                   cacheDir \o "/m1/p1/2.0.0/skills",
                   marketplacesDir \o "/m2/plugins",
                   marketplacesDir \o "/m2/plugins/p2/skills",
                   marketplacesDir \o "/m2/skills"}}
    \cup {Hazard("vanished", q) :
            q \in {cacheDir \o "/m1/p1/2.0.0", A2Path, join(A2Path, "SKILL.md"),
                   marketplacesDir \o "/m2", marketplacesDir \o "/m2/plugins/p2",
                   MAPath, join(MDPath, "SKILL.md")}}
    \cup {Hazard(k, cacheDir \o "/m1/pb/1.0.0") : k \in {"file", "absent"}}
    \cup {Hazard(k, w) : k \in {"version", "versionFirst", "bareVersion"},
                         w \in {"2.0.0-rc", "10.0.0", "latest"}}
    \cup {Hazard(k, n) :
            k \in {"cachePlugin", "cacheMarketplace", "nestedPlugin", "flatMarketplace"},
            n \in LayoutNames}

InitScan ==
    /\ pc = "start"
    /\ \E h \in Hazards, tgt \in BulkTargets : fs = ApplyHazard(InitialFs(ScanSource, tgt), h)
    /\ fs0 = fs
    /\ cacheSkills = <<>> /\ remainingLimit = 0 /\ marketplaceSkills = <<>>
    /\ skillMap = <<>> /\ discovered = <<>> /\ totalFound = 0
    /\ entries = <<>> /\ idx = 1
    /\ cleaned = 0 /\ updated = 0 /\ created = 0
    /\ log = <<>> /\ ops = <<>>
    /\ ExtractIdle
    /\ VersionIdle
    /\ PassIdle
    /\ ManifestIdle
    /\ CleanupIdle
    /\ HostIdle

SpecScan == InitScan /\ [][Next]_vars

\* The directory p can be listed.
Listable(F, p) == isDirectory(F, p) /\ Follow(F, p) \notin F.unreadable

\* The directory p holds the marker file.
Marked(F, p) == isDirectory(F, p) /\ exists(F, join(p, "SKILL.md"))

Paths(list) == {list[k].path : k \in 1..Len(list)}

\* The names under p that are directories.
DirNames(F, p) == {F.order[k] : k \in {i \in DOMAIN F.order : isDirectory(F, join(p, F.order[i]))}}

\* The place of the name n in a listing.
ListedAt(F, n) == CHOOSE k \in DOMAIN F.order : F.order[k] = n

\* The version directory v of a plugin is the one a stable ascending sort of
\* the plugin's directories puts last: every other one is smaller, or equal
\* and listed earlier.
LastSorted(F, pluginPath, v) ==
    \A w \in DirNames(F, pluginPath) \ {v} :
        \/ compareVersions(w, v) < 0
        \/ compareVersions(w, v) = 0 /\ ListedAt(F, w) < ListedAt(F, v)

\* The skill directory p of the cache layout lies on a branch no call fails
\* on: <cache>/<marketplace>/<plugin>/<version>/skills/<skill>, the version
\* being the greatest of the plugin's version directories.
CacheBranchIntact(F, p) ==
    LET skillsDir == dirname(p)
        versionDir == dirname(skillsDir)
        pluginPath == dirname(versionDir)
        marketplacePath == dirname(pluginPath)
    IN  /\ dirname(marketplacePath) = cacheDir
        /\ skillsDir = join(versionDir, "skills")
        /\ Listable(F, cacheDir)
        /\ Listable(F, marketplacePath)
        /\ Listable(F, pluginPath)
        /\ isDirectory(F, versionDir)
        /\ LastSorted(F, pluginPath,
                      SubSeq(versionDir, Len(pluginPath) + 2, Len(versionDir)))
        /\ Listable(F, skillsDir)
        /\ Marked(F, p)

\* <marketplaces>/<marketplace>/plugins/<plugin>/skills/<skill>
NestedBranchIntact(F, p) ==
    LET skillsDir == dirname(p)
        pluginPath == dirname(skillsDir)
        pluginsDir == dirname(pluginPath)
        marketplacePath == dirname(pluginsDir)
    IN  /\ dirname(marketplacePath) = marketplacesDir
        /\ pluginsDir = join(marketplacePath, "plugins")
        /\ skillsDir = join(pluginPath, "skills")
        /\ Listable(F, marketplacesDir)
        /\ isDirectory(F, marketplacePath)
        /\ Listable(F, pluginsDir)
        /\ isDirectory(F, pluginPath)
        /\ Listable(F, skillsDir)
        /\ Marked(F, p)

\* <marketplaces>/<marketplace>/skills/<skill>
FlatBranchIntact(F, p) ==
    LET directSkillsDir == dirname(p)
        marketplacePath == dirname(directSkillsDir)
    IN  /\ dirname(marketplacePath) = marketplacesDir
        /\ directSkillsDir = join(marketplacePath, "skills")
        /\ Listable(F, marketplacesDir)
        /\ isDirectory(F, marketplacePath)
        /\ Listable(F, directSkillsDir)
        /\ Marked(F, p)

CacheScanned == pc \in {"cacheScanned", "scanned", "cacheMerged", "merged"}

MarketplacesScanned == pc \in {"scanned", "cacheMerged", "merged"}

\* C16: on every tree, with a rejected listing or stat at any one level, the
\* two scans return (they do not throw), leave the filesystem as it was, and,
\* no cap being near, return exactly the skills on the branches no call fails
\* on: all of them from the cache, and all of them from the nested and the
\* flat layouts of the marketplaces.
C16_OnlyFailingBranchLost ==
    /\ (CacheScanned \/ pc = "start") => fs = fs0 /\ ops = <<>> /\ console = <<>>
    /\ CacheScanned =>
          Paths(cacheSkills) = {p \in fs0.dirs : CacheBranchIntact(fs0, p)}
    /\ MarketplacesScanned =>
          Paths(marketplaceSkills) =
             {p \in fs0.dirs : NestedBranchIntact(fs0, p) \/ FlatBranchIntact(fs0, p)}

(***************************************************************************)
(* The version comparator on its own                                       *)
(***************************************************************************)
MaxVersions == 3
MaxComponent == 99

\* Strings given to parseVersion one at a time.
ParseTexts ==
    {"1.2.3", "0.0.1", "10.20.30", "1.2", "", "invalid", "v1.2.3", "1.2.3-beta",
     "1.2.3.4", "01.02.03", "1..3", ".1.2", "1.2.", "1.2.x", "1.2.34x", " 1.2.3",
     "1-2-3", "12", "1.2.3 ", "1.x.3", "0.0.0"}

\* Strings compared with each other and sorted.
CompareTexts ==
    {"1.0.0", "1.2.0", "1.0.1", "0.9.0", "1.10.0", "2.0.0-rc1", "latest", "v3.0.0"}

\* The array of the repository's own sorting test.
SortExample == <<"1.0.0", "2.0.0", "1.2.0", "1.0.1", "0.9.0">>

VersionLists ==
    {<<t>> : t \in ParseTexts}
    \cup UNION {[1..n -> CompareTexts] : n \in 1..MaxVersions}
    \cup {SortExample}

InitVersion ==
    /\ pc = "versions"
    /\ versionList \in VersionLists
    /\ parsedList = <<>> /\ compared = <<>> /\ sortedList = <<>>
    /\ PassIdle
    /\ SyncIdle
    /\ ExtractIdle
    /\ ManifestIdle
    /\ CleanupIdle
    /\ HostIdle

\* parseVersion(v) for every string given.
ParseCall ==
    /\ pc = "versions"
    /\ parsedList' = [k \in 1..Len(versionList) |-> parseVersion(versionList[k])]
    /\ pc' = "parsed"
    /\ UNCHANGED <<syncVars, extractVars, manifestVars, cleanupVars, hostVars,
                   versionList, compared, sortedList, passVars>>

\* compareVersions(a, b) for every pair of the strings given.
CompareCall ==
    /\ pc = "parsed"
    /\ compared' = [i \in 1..Len(versionList) |->
                      [j \in 1..Len(versionList) |->
                          compareVersions(versionList[i], versionList[j])]]
    /\ pc' = "compared"
    /\ UNCHANGED <<syncVars, extractVars, manifestVars, cleanupVars, hostVars,
                   versionList, parsedList, sortedList, passVars>>

\* versions.sort(compareVersions)
SortCall ==
    /\ pc = "compared"
    /\ sortedList' = SortVersions(versionList)
    /\ pc' = "sorted"
    /\ UNCHANGED <<syncVars, extractVars, manifestVars, cleanupVars, hostVars,
                   versionList, parsedList, compared, passVars>>

NextVersion ==
    \/ ParseCall
    \/ CompareCall
    \/ SortCall

SpecVersion == InitVersion /\ [][NextVersion]_vars

\* d is a non-empty run of digits.
IsDigits(d) == Len(d) > 0 /\ \A i \in 1..Len(d) : Char(d, i) \in Digits

\* The number a run of digits writes in decimal, leading zeros allowed.
Decimal(d) ==
    CHOOSE n \in 0..MaxComponent :
        \E z \in 0..(Len(d) - 1) : d = SubSeq("00000000", 1, z) \o ToString(n)

Dots(t) == {i \in 1..Len(t) : Char(t, i) = "."}

\* The ways t starts with digits "." digits "." digits: the places of the two
\* dots and of the last digit of the third run, which no digit follows.
LeadingTriples(t) ==
    {c \in Dots(t) \X Dots(t) \X (1..Len(t)) :
        /\ c[1] < c[2] /\ c[2] < c[3]
        /\ IsDigits(SubSeq(t, 1, c[1] - 1))
        /\ IsDigits(SubSeq(t, c[1] + 1, c[2] - 1))
        /\ IsDigits(SubSeq(t, c[2] + 1, c[3]))
        /\ (c[3] = Len(t) \/ Char(t, c[3] + 1) \notin Digits)}

TripleAt(t, c) ==
    <<Decimal(SubSeq(t, 1, c[1] - 1)),
      Decimal(SubSeq(t, c[1] + 1, c[2] - 1)),
      Decimal(SubSeq(t, c[2] + 1, c[3]))>>

Parsed == pc \in {"parsed", "compared", "sorted"}

\* C17: parseVersion returns, for every string, three natural numbers: the
\* three leading integers when the string starts with digits "." digits "."
\* digits, whatever follows the third run of digits, and (0,0,0) for every
\* other string, among them "1.2", "", "invalid" and "v1.2.3".
C17_LeadingTripleOrZero ==
    Parsed =>
       /\ Len(parsedList) = Len(versionList)
       /\ \A n \in 1..Len(versionList) :
             /\ parsedList[n] \in Nat \X Nat \X Nat
             /\ \A c \in LeadingTriples(versionList[n]) :
                   parsedList[n] = TripleAt(versionList[n], c)
             /\ LeadingTriples(versionList[n]) = {} => parsedList[n] = <<0, 0, 0>>
             /\ versionList[n] \in {"1.2", "", "invalid", "v1.2.3"} =>
                   parsedList[n] = <<0, 0, 0>>
             /\ versionList[n] = "10.20.30" => parsedList[n] = <<10, 20, 30>>

\* A string with text after the third number has been parsed.
C17_Witness ==
    /\ pc = "parsed"
    /\ versionList = <<"1.2.3-beta">>
    /\ parsedList = <<(<<1, 2, 3>>)>>

Sign(n) == IF n < 0 THEN -1 ELSE IF n > 0 THEN 1 ELSE 0

\* u comes before v in the lexicographic order of triples.
LexLess(u, v) == \E i \in 1..3 : u[i] < v[i] /\ \A j \in 1..(i - 1) : u[j] = v[j]

LexSign(u, v) == IF LexLess(u, v) THEN -1 ELSE IF LexLess(v, u) THEN 1 ELSE 0

Count(list, t) == Cardinality({k \in 1..Len(list) : list[k] = t})

\* C18: compareVersions(a, b) has the sign of the lexicographic comparison of
\* the two parsed triples; it is antisymmetric and transitive; two strings
\* that both parse to (0,0,0) compare equal; and the sorted array holds the
\* same strings with non-decreasing triples.
C18_LexicographicComparator ==
    /\ pc \in {"compared", "sorted"} =>
          \A i \in 1..Len(versionList), j \in 1..Len(versionList) :
             /\ Sign(compared[i][j]) = LexSign(parsedList[i], parsedList[j])
             /\ Sign(compared[i][j]) = -Sign(compared[j][i])
             /\ (parsedList[i] = <<0, 0, 0>> /\ parsedList[j] = <<0, 0, 0>>) =>
                   compared[i][j] = 0
             /\ \A k \in 1..Len(versionList) :
                   (compared[i][j] <= 0 /\ compared[j][k] <= 0) => compared[i][k] <= 0
    /\ pc = "sorted" =>
          /\ Len(sortedList) = Len(versionList)
          /\ \A k \in 1..Len(versionList) :
                Count(sortedList, versionList[k]) = Count(versionList, versionList[k])
          /\ \A k \in 1..(Len(sortedList) - 1) :
                ~LexLess(parseVersion(sortedList[k + 1]), parseVersion(sortedList[k]))
          /\ versionList = SortExample =>
                sortedList = <<"0.9.0", "1.0.0", "1.0.1", "1.2.0", "2.0.0">>

\* Three strings sorted by number, not by text, the unparsable one first.
C18_Witness ==
    /\ pc = "sorted"
    /\ versionList = <<"1.10.0", "latest", "1.2.0">>
    /\ compared[1][3] > 0
    /\ sortedList = <<"latest", "1.2.0", "1.10.0">>

\* The plugin directories of the cache tree.
CachePlugins(F) == {q \in F.dirs : dirname(dirname(q)) = cacheDir}

\* What the cache scan returned from under the plugin directory q.
ReturnedFrom(q) == {cacheSkills[k] : k \in {i \in 1..Len(cacheSkills) : Below(q, cacheSkills[i].path)}}

\* No directory of the plugin compares greater than v.
Maximal(F, pluginPath, v) ==
    \A w \in DirNames(F, pluginPath) : compareVersions(w, v) <= 0

\* C19: for every plugin directory of the cache, the skills returned from it
\* lie in the skills directory of one version directory, the one they are
\* labelled with, and no directory of the plugin compares greater than it; a
\* plugin without a directory among its entries contributes nothing; and a
\* plugin none of whose greatest version directories has a skills directory
\* contributes nothing, whatever its smaller versions hold.
C19_LatestVersionOnly ==
    CacheScanned =>
       \A q \in CachePlugins(fs0) :
          /\ \A s \in ReturnedFrom(q) :
                /\ s.path = join(join(join(q, s.version), "skills"), s.name)
                /\ s.version \in DirNames(fs0, q)
                /\ Maximal(fs0, q, s.version)
                /\ \A t \in ReturnedFrom(q) : t.version = s.version
          /\ DirNames(fs0, q) = {} => ReturnedFrom(q) = {}
          /\ (\A v \in DirNames(fs0, q) :
                 Maximal(fs0, q, v) => ~exists(fs0, join(join(q, v), "skills")))
             => ReturnedFrom(q) = {}

\* The plugin m1/p1 has the versions 1.0.0 and 2.0.0 with skills and the
\* version 10.0.0 without a skills directory: nothing is returned from it,
\* while the other plugins are.
C19_Witness ==
    /\ pc = "cacheScanned"
    /\ DirNames(fs0, P1Path) = {"1.0.0", "2.0.0", "10.0.0"}
    /\ exists(fs0, A2Path) /\ exists(fs0, join(A2Path, "SKILL.md"))
    /\ ~exists(fs0, join(join(P1Path, "10.0.0"), "skills"))
    /\ ReturnedFrom(P1Path) = {}
    /\ Paths(cacheSkills) = {BulkCachePath(1), CGPath}

\* The paths of a list that have the shape of the flat layout.
FlatPaths(list) == {p \in Paths(list) : dirname(dirname(dirname(p))) = marketplacesDir}

\* The tree without the `plugins` directory of any marketplace.
WithoutNested(F) ==
    LET Nested(q) == \E m \in F.dirs :
                        dirname(m) = marketplacesDir /\ Below(join(m, "plugins"), q)
    IN  [F EXCEPT !.dirs = {q \in @ : ~Nested(q)}, !.files = {q \in @ : ~Nested(q)}]

\* C20: no cap being near, the skills findSkillsInMarketplaces returns from
\* the flat layout are the marked skill directories of every listable
\* <marketplace>/skills, and they are the ones it returns from the same tree
\* without any `plugins` directory: whatever the nested sub-scan of a
\* marketplace meets, a rejected listing of `plugins` included.
C20_FlatIndependentOfNested ==
    MarketplacesScanned =>
       /\ FlatPaths(marketplaceSkills) = {p \in fs0.dirs : FlatBranchIntact(fs0, p)}
       /\ FlatPaths(marketplaceSkills) =
             FlatPaths(findSkillsInMarketplaces(WithoutNested(fs0), marketplacesDir,
                                                remainingLimit))

(***************************************************************************)
(* The reconciler: further properties of a sync pass                       *)
(***************************************************************************)
\* A link whose target does not exist, with a discovered skill of its name.
BrokenWithSkill(e) == WasLink(e) /\ ~TargetExisted(e) /\ Discovered(e)

\* C21: once the loop is done with a broken link that has the name of a
\* discovered skill, the link is gone by one unlink, the name has left the
\* map, and no symlink call is made on it to the end of the pass; the link is
\* counted in cleaned, while updated counts only the valid links that pointed
\* elsewhere and created only the links made for names that were no link.
C21_BrokenCleanedNotRecreated ==
    /\ \A e \in Processed :
          BrokenWithSkill(e) =>
              /\ ~LExists(fs, TargetPath(e))
              /\ OpsOn(TargetPath(e)) = <<FsOp("unlink", TargetPath(e), "", TRUE)>>
              /\ ~MapHas(skillMap, e)
    /\ cleaned >= Cardinality({e \in Processed : BrokenWithSkill(e)})
    /\ updated = Cardinality({e \in Processed : Outdated(e)})
    /\ created = Cardinality({k \in 1..Len(ops) :
                                /\ ops[k].op = "symlink" /\ ops[k].ok
                                /\ ops[k].path \notin DOMAIN fs0.links})

\* The link gamma was broken while the skill gamma was discovered: the pass
\* is over, the link is gone and only cleaned counts it.
C21_Witness ==
    /\ pc = "done"
    /\ SummaryLogged
    /\ DOMAIN fs0.links = {TargetPath("gamma")}
    /\ BrokenWithSkill("gamma")
    /\ MapNames(discovered) = {"gamma"}
    /\ ~LExists(fs, TargetPath("gamma"))
    /\ cleaned = 1 /\ updated = 0 /\ created = 0

\* The number of names of the map the creation loop is done with.
Attempted ==
    IF pc = "create" THEN idx - 1
    ELSE IF pc = "done" /\ SummaryLogged THEN Len(skillMap)
    ELSE 0

\* The call the creation loop made for the k-th name of the map.
CreationOp(k) == ops[Len(ops) - Attempted + k]

\* C22: the last calls of the pass are one symlink(skill.path,
\* targetDir/name) for each name left in the map, in the map's order; created
\* is the number of those that succeeded; one that failed left what stood in
\* its way and was followed by the attempts for the names after it.
C22_CreationPass ==
    /\ Len(ops) >= Attempted
    /\ \A k \in 1..Attempted :
          /\ CreationOp(k).op = "symlink"
          /\ CreationOp(k).path = TargetPath(skillMap[k].name)
          /\ CreationOp(k).target = skillMap[k].path
          /\ CreationOp(k).ok =>
                /\ isSymbolicLink(fs, CreationOp(k).path)
                /\ fs.links[CreationOp(k).path] = skillMap[k].path
          /\ ~CreationOp(k).ok =>
                /\ CreationOp(k).path \in fs0.files \cup fs0.dirs
                /\ CreationOp(k).path \in fs.files \cup fs.dirs
    /\ created = Cardinality({k \in 1..Attempted : CreationOp(k).ok})

\* A file named alpha stood in the way of the first creation; the creation
\* for gamma, after it, was made and is the one counted.
C22_Witness ==
    /\ pc = "done"
    /\ SummaryLogged
    /\ Attempted = 2
    /\ CreationOp(1) = FsOp("symlink", TargetPath("alpha"), A2Path, FALSE)
    /\ CreationOp(2) = FsOp("symlink", TargetPath("gamma"), MGPath, TRUE)
    /\ created = 1

basename(p) == SubSeq(p, Len(dirname(p)) + 2, Len(p))

\* C23: every skill either scan returns is a directory that holds SKILL.md,
\* named after that directory; one from the cache has the source "cache" and
\* as version the name of the version directory its skills directory lies in;
\* one from the marketplaces has the source "marketplaces" and the version
\* "latest".
C23_MarkedDirectoriesOnly ==
    /\ CacheScanned =>
          \A k \in 1..Len(cacheSkills) :
             /\ isDirectory(fs0, cacheSkills[k].path)
             /\ exists(fs0, join(cacheSkills[k].path, "SKILL.md"))
             /\ cacheSkills[k].name = basename(cacheSkills[k].path)
             /\ cacheSkills[k].source = "cache"
             /\ basename(dirname(cacheSkills[k].path)) = "skills"
             /\ cacheSkills[k].version = basename(dirname(dirname(cacheSkills[k].path)))
    /\ MarketplacesScanned =>
          \A k \in 1..Len(marketplaceSkills) :
             /\ isDirectory(fs0, marketplaceSkills[k].path)
             /\ exists(fs0, join(marketplaceSkills[k].path, "SKILL.md"))
             /\ marketplaceSkills[k].name = basename(marketplaceSkills[k].path)
             /\ marketplaceSkills[k].source = "marketplaces"
             /\ marketplaceSkills[k].version = "latest"

\* Next to the skill alpha of version 2.0.0 stands the directory beta without
\* SKILL.md, and in the flat layout the SKILL.md of delta has vanished: alpha
\* is returned with its version, beta and delta are not.
C23_Witness ==
    /\ pc = "scanned"
    /\ isDirectory(fs0, B2Path) /\ ~exists(fs0, join(B2Path, "SKILL.md"))
    /\ isDirectory(fs0, MDPath) /\ ~exists(fs0, join(MDPath, "SKILL.md"))
    /\ cacheSkills[1] = SkillInfo("alpha", A2Path, "2.0.0", "cache")
    /\ B2Path \notin Paths(cacheSkills)
    /\ MDPath \notin Paths(marketplaceSkills)
    /\ SkillInfo("gamma", MGPath, "latest", "marketplaces") \in
          {marketplaceSkills[k] : k \in 1..Len(marketplaceSkills)}

\* No filesystem call of the pass has failed.
NoCallFailed == \A k \in 1..Len(ops) : ops[k].ok

\* The symbolic links the target directory holds.
TargetLinks(F) == {p \in DOMAIN F.links : dirname(p) = targetDir}

\* Every symbolic link of the target directory has the name of a discovered
\* skill and points at that skill's path.
OnlySkillLinks ==
    \A p \in TargetLinks(fs) :
        /\ MapHas(discovered, basename(p))
        /\ fs.links[p] = MapGet(discovered, basename(p)).path

\* C24 as claimed: after every pass without a failed filesystem call, the
\* passes that end at "Claude Code not installed" or "No skills found"
\* included, every symbolic link of the target directory is the link of a
\* discovered skill.
C24_AsClaimed == (pc = "done" /\ NoCallFailed) => OnlySkillLinks

\* C24: after a pass that discovered at least one skill and in which no
\* filesystem call failed, every symbolic link of the target directory has
\* the name of a discovered skill and that skill's path as its target.
C24_OnlySkillLinksRemain ==
    (pc = "done" /\ discovered # <<>> /\ NoCallFailed) => SummaryLogged /\ OnlySkillLinks

\* The target directory held an outdated, a broken and a stale link; after
\* the pass the only link is the one of alpha, at the discovered path.
C24_Witness ==
    /\ pc = "done"
    /\ NoCallFailed
    /\ fs0.links = (TargetPath("alpha") :> A1Path) @@ (TargetPath("gamma") :> "/gone/gamma")
                   @@ (TargetPath("zeta") :> A1Path)
    /\ Outdated("alpha") /\ Stale("zeta")
    /\ fs.links = (TargetPath("alpha") :> A2Path)

\* The skill of the name n has its link in the target directory.
Linked(n) ==
    /\ isSymbolicLink(fs, TargetPath(n))
    /\ fs.links[TargetPath(n)] = MapGet(discovered, n).path

\* No regular file or directory of the target directory has the name of a
\* discovered skill.
NoNameTaken ==
    \A n \in MapNames(discovered) : TargetPath(n) \notin fs0.files \cup fs0.dirs

\* C25 as claimed: after a pass without a failed call and without a file or
\* directory under a skill's name, every discovered skill has its link,
\* whatever links, broken ones included, the target directory held.
C25_AsClaimed ==
    (pc = "done" /\ NoCallFailed /\ NoNameTaken) =>
        \A n \in MapNames(discovered) : Linked(n)

\* C25: after such a pass every discovered skill has its link, except the
\* skills whose name a broken link held before the pass: their broken link
\* is removed and nothing stands under their name.
C25_LinkedUnlessBroken ==
    (pc = "done" /\ NoCallFailed /\ NoNameTaken) =>
        \A n \in MapNames(discovered) :
            IF BrokenWithSkill(n) THEN ~LExists(fs, TargetPath(n)) ELSE Linked(n)

\* alpha had an outdated link, gamma a broken one and zeta a stale one: after
\* the pass alpha is linked to the discovered path and gamma has no link.
C25_Witness ==
    /\ pc = "done"
    /\ NoCallFailed /\ NoNameTaken
    /\ MapNames(discovered) = {"alpha", "gamma"}
    /\ Outdated("alpha") /\ BrokenWithSkill("gamma") /\ Stale("zeta")
    /\ Linked("alpha")
    /\ ~LExists(fs, TargetPath("gamma"))

(***************************************************************************)
(* Two sync passes in a row                                                *)
(***************************************************************************)
InitTwice ==
    /\ pc = "start"
    /\ \E src \in SmallSources, tgt \in SmallTargets : fs = InitialFs(src, tgt)
    /\ fs0 = fs
    /\ cacheSkills = <<>> /\ remainingLimit = 0 /\ marketplaceSkills = <<>>
    /\ skillMap = <<>> /\ discovered = <<>> /\ totalFound = 0
    /\ entries = <<>> /\ idx = 1
    /\ cleaned = 0 /\ updated = 0 /\ created = 0
    /\ log = <<>> /\ ops = <<>>
    /\ ExtractIdle
    /\ VersionIdle
    /\ PassIdle
    /\ ManifestIdle
    /\ CleanupIdle
    /\ HostIdle

\* claudeSkillSync is called again once a pass is over: syncSkills starts
\* anew on the filesystem the first pass left.
SecondPass ==
    /\ pc = "done"
    /\ firstPass = null
    /\ firstPass' = <<[fs0 |-> fs0, discovered |-> discovered, ops |-> ops, log |-> log,
                       created |-> created, updated |-> updated, cleaned |-> cleaned]>>
    /\ pc' = "start"
    /\ fs0' = fs
    /\ cacheSkills' = <<>> /\ remainingLimit' = 0 /\ marketplaceSkills' = <<>>
    /\ skillMap' = <<>> /\ discovered' = <<>> /\ totalFound' = 0
    /\ entries' = <<>> /\ idx' = 1
    /\ cleaned' = 0 /\ updated' = 0 /\ created' = 0
    /\ log' = <<>> /\ ops' = <<>>
    /\ UNCHANGED <<fs, extractVars, manifestVars, cleanupVars, hostVars, versionVars>>

NextTwice ==
    \/ NotInstalled
    \/ ScanCache
    \/ ScanMarketplaces
    \/ MergeCacheSkill
    \/ EndMergeCache
    \/ MergeMarketplace
    \/ Merge
    \/ ListTarget
    \/ ReconcileEntry
    \/ EndReconcile
    \/ CreateLink
    \/ LogSummary
    \/ SecondPass

SpecTwice == InitTwice /\ [][NextTwice]_vars

\* A second pass is running or over, and no filesystem call has failed in
\* either pass.
SecondPassUnfailed ==
    /\ firstPass # null
    /\ NoCallFailed
    /\ \A k \in 1..Len(firstPass[1].ops) : firstPass[1].ops[k].ok

\* The second pass has changed nothing and counted nothing.
SecondPassIdle ==
    /\ fs = fs0
    /\ ops = <<>>
    /\ created = 0 /\ updated = 0 /\ cleaned = 0
    /\ SummaryLogged => log = <<SummaryMessage(totalFound, 0, 0, 0)>>

\* The first pass started with a broken link under the name of a skill it
\* discovered.
FirstPassMetBroken ==
    \E n \in MapNames(firstPass[1].discovered) :
        /\ isSymbolicLink(firstPass[1].fs0, TargetPath(n))
        /\ ~exists(firstPass[1].fs0, TargetPath(n))

\* C26 as claimed: from every initial state, a second pass right after the
\* first, no call failing, changes nothing and reports 0 created, 0 updated,
\* 0 cleaned.
C26_AsClaimed == SecondPassUnfailed => SecondPassIdle

\* C26: from every initial state in which no broken link of the target
\* directory has the name of a discovered skill, a second pass right after
\* the first, no call failing, makes no filesystem call that changes
\* anything and reports 0 created, 0 updated, 0 cleaned.
C26_IdempotentUnlessBroken ==
    (SecondPassUnfailed /\ ~FirstPassMetBroken) => SecondPassIdle

\* The first pass cleaned, updated and created; the second, on what the first
\* left, reports three zeros.
C26_Witness ==
    /\ pc = "done"
    /\ SecondPassUnfailed /\ ~FirstPassMetBroken
    /\ firstPass[1].created = 1 /\ firstPass[1].updated = 1 /\ firstPass[1].cleaned = 1
    /\ fs = fs0
    /\ log = <<"Synced 2 skills (limit: 100): 0 created, 0 updated, 0 cleaned">>

(***************************************************************************)
(* Where the surviving links lead                                          *)
(***************************************************************************)
\* The stored target of the link at entryPath with its "." and ".." segments
\* resolved, read from the directory of the link when it is relative.
LexicalTarget(entryPath, rawTargetPath) ==
    IF HasDriveLetter(rawTargetPath)
    THEN LET s == ReplaceBackslashes(rawTargetPath)
         IN  SubSeq(s, 1, 2) \o resolve("/", SubSeq(s, 3, Len(s)))
    ELSE resolve(dirname(entryPath), rawTargetPath)

\* The directories of the plugin with key plugin@marketplace, as path tails.
PluginDirTails(id) ==
    LET at == CHOOSE k \in 1..Len(id) : Char(id, k) = "@"
        plugin == SubSeq(id, 1, at - 1)
        marketplace == SubSeq(id, at + 1, Len(id))
    IN  {"/cache/" \o marketplace \o "/" \o plugin,
         "/marketplaces/" \o marketplace \o "/plugins/" \o plugin}
        \cup (IF plugin = marketplace THEN {"/marketplaces/" \o marketplace \o "/skills"}
              ELSE {})

\* Path r is a plugin directory of id or lies below one.
InsidePlugin(r, id) ==
    \E t \in PluginDirTails(id), k \in 1..Len(r) :
        /\ StartsAt(r, k, t)
        /\ k + Len(t) > Len(r) \/ Char(r, k + Len(t)) = "/"

LeadsToInstalled(e) ==
    \E id \in installedPlugins[1] :
        InsidePlugin(LexicalTarget(TargetPath(e), fs0.links[TargetPath(e)]), id)

\* C27: every link that is still there once the cleanup loop is done with it,
\* no call on it having been rejected, has a target that, with its "." and
\* ".." segments resolved, lies inside the directory of a plugin of
\* installedPlugins; absolute stored targets with ".." segments included.
C27_SurvivorsInsideInstalled ==
    pc \in {"cleanupLoop", "cleanupDone"} =>
        \A e \in CleanupProcessed :
            (WasLink(e) /\ isSymbolicLink(fs, TargetPath(e)) /\ ~FaultHit(e))
                => LeadsToInstalled(e)

(***************************************************************************)
(* Discovery and classification                                            *)
(***************************************************************************)
\* The names a listing can give.
ListedNames == {fs0.order[k] : k \in DOMAIN fs0.order}

\* The keys {p}@{m} for which q is {cacheDir}/{m}/{p}/{v}/skills/{s}.
CacheKeys(q) ==
    {x[2] \o "@" \o x[1] :
        x \in {y \in ListedNames \X ListedNames :
                 LET pluginPath == join(join(cacheDir, y[1]), y[2])
                 IN  /\ StartsAt(q, 1, pluginPath \o "/")
                     /\ \E v \in ListedNames :
                           LET skillsDir == join(join(pluginPath, v), "skills")
                           IN  /\ StartsAt(q, 1, skillsDir \o "/")
                               /\ \E n \in ListedNames : q = join(skillsDir, n)}}

\* The keys {p}@{m} for which q is {marketplacesDir}/{m}/plugins/{p}/skills/{s}.
NestedKeys(q) ==
    {x[2] \o "@" \o x[1] :
        x \in {y \in ListedNames \X ListedNames :
                 LET skillsDir ==
                         join(join(join(join(marketplacesDir, y[1]), "plugins"), y[2]), "skills")
                 IN  /\ StartsAt(q, 1, skillsDir \o "/")
                     /\ \E n \in ListedNames : q = join(skillsDir, n)}}

\* The keys {m}@{m} for which q is {marketplacesDir}/{m}/skills/{s}.
FlatKeys(q) ==
    {m \o "@" \o m :
        m \in {y \in ListedNames :
                 LET skillsDir == join(join(marketplacesDir, y), "skills")
                 IN  /\ StartsAt(q, 1, skillsDir \o "/")
                     /\ \E n \in ListedNames : q = join(skillsDir, n)}}

\* The path q has a layout, and is classified to the key of each layout it
\* has.
ClassifiedByLayout(q, keys) ==
    /\ keys # {}
    /\ \A id \in keys : extractPluginNameFromPath(q) = <<id>>

\* C28: a skill the cache scan returns from {cacheDir}/{m}/{p}/{v}/skills/{s}
\* is classified {p}@{m}; one the marketplace scan returns from
\* {marketplacesDir}/{m}/plugins/{p}/skills/{s} is classified {p}@{m}, one
\* from {marketplacesDir}/{m}/skills/{s} is classified {m}@{m}; the target of
\* a link the pass creates is never classified null.
C28_DiscoveryAgreesWithClassification ==
    /\ \A k \in 1..Len(cacheSkills) :
          ClassifiedByLayout(cacheSkills[k].path, CacheKeys(cacheSkills[k].path))
    /\ \A k \in 1..Len(marketplaceSkills) :
          ClassifiedByLayout(marketplaceSkills[k].path,
                             NestedKeys(marketplaceSkills[k].path)
                                 \cup FlatKeys(marketplaceSkills[k].path))
    /\ \A k \in 1..Len(ops) :
          (ops[k].op = "symlink" /\ ops[k].ok)
              => extractPluginNameFromPath(ops[k].target) # null

(***************************************************************************)
(* Passes that return early                                                *)
(***************************************************************************)
NothingDone == fs = fs0 /\ ops = <<>>

\* C29: a pass that finds ~/.claude missing, or that discovers no skill, makes
\* no filesystem call that changes anything: the target directory is not
\* created and every link it held, stale and broken ones included, is still
\* there; the only thing it logs is "Claude Code not installed, skipping",
\* respectively "No skills found".  Nothing is changed before the merge is
\* over either.
C29_EarlyReturnTouchesNothing ==
    /\ pc \in {"start", "cacheScanned", "scanned", "cacheMerged"} => NothingDone
    /\ (pc = "done" /\ ~exists(fs0, claudeDir)) =>
          NothingDone /\ log = <<"Claude Code not installed, skipping">>
    /\ (pc = "done" /\ exists(fs0, claudeDir) /\ discovered = <<>>) =>
          NothingDone /\ log = <<"No skills found">>

\* A pass over a cache that holds only a directory without SKILL.md has
\* returned with "No skills found"; the broken links alpha and zeta are
\* still in the target directory.
C29_Witness ==
    /\ pc = "done"
    /\ B2Path \in fs0.dirs
    /\ log = <<"No skills found">>
    /\ isSymbolicLink(fs, TargetPath("alpha")) /\ fs.links[TargetPath("alpha")] = "/gone/alpha"
    /\ isSymbolicLink(fs, TargetPath("zeta")) /\ ~exists(fs, TargetPath("zeta"))

(***************************************************************************)
(* Sync passes with a rejected call                                        *)
(***************************************************************************)
FaultySources ==
    {Source(FALSE, {}, 0, 0)}
    \cup {Source(TRUE, f, 0, 0) : f \in SUBSET {"A1", "A2", "MA", "MG"}}

\* The calls of a pass that can be rejected: the unlink or the symlink of one
\* name of the target directory.
RejectedCalls ==
    {{}} \cup {{<<call, join(targetDir, n)>>} : call \in {"unlink", "symlink"}, n \in TargetNames}

InitFaulty ==
    /\ pc = "start"
    /\ \E src \in FaultySources, tgt \in SmallTargets, rejected \in RejectedCalls :
          fs = [InitialFs(src, tgt) EXCEPT !.failing = rejected]
    /\ fs0 = fs
    /\ cacheSkills = <<>> /\ remainingLimit = 0 /\ marketplaceSkills = <<>>
    /\ skillMap = <<>> /\ discovered = <<>> /\ totalFound = 0
    /\ entries = <<>> /\ idx = 1
    /\ cleaned = 0 /\ updated = 0 /\ created = 0
    /\ log = <<>> /\ ops = <<>>
    /\ ExtractIdle
    /\ VersionIdle
    /\ PassIdle
    /\ ManifestIdle
    /\ CleanupIdle
    /\ HostIdle

SpecFaulty == InitFaulty /\ [][Next]_vars

\* The balance of the counters: the links of the target directory are those
\* it had, less the cleaned ones, plus the created ones.
CountersBalance ==
    Cardinality(TargetLinks(fs)) = Cardinality(TargetLinks(fs0)) - cleaned + created

\* No link the target directory had is counted twice.
CountedOnce == cleaned + updated <= Cardinality(TargetLinks(fs0))

\* C30: in every pass, passes with a rejected unlink or symlink included, the
\* number of links in the target directory after the pass is the number
\* before minus cleaned plus created, and each link that was there is counted
\* in at most one of cleaned and updated.
C30_CounterAccounting ==
    pc = "done" => CountersBalance /\ CountedOnce

====
